---------------------------- MODULE Spec2Model ----------------------------
(***************************************************************************)
(* Model of the threat-analysis core of Sentinal: the pattern library,     *)
(* the component classifier, the pattern matcher, the STRIDE classifier,   *)
(* the DREAD scorer, the mitigation engine, and the similarity service     *)
(* over the persisted threats.                                             *)
(*                                                                         *)
(* Texts are sequences of one-character strings, so that str.lower(), the  *)
(* substring test `kw in text` and re.search are computed on characters.   *)
(* Pattern confidences (the Python floats 0.8, 0.85, 0.9, raised by 0.1    *)
(* and capped at 1.0) are integers in hundredths: in IEEE doubles 0.8+0.1, *)
(* 0.85+0.1 and 0.9+0.1 are exactly the doubles 0.9, 0.95 and 1.0, so every *)
(* comparison of two confidences agrees with the comparison of the         *)
(* hundredths.  Other float results are exact rationals [n, d].            *)
(***************************************************************************)
EXTENDS Integers, Sequences, FiniteSets, TLC

VARIABLES
  asset,           \* the asset text of the request being served
  flow,            \* its data-flow text
  trust_boundary,  \* its trust boundary: a text or None
  op,              \* the operation that returned last; "none" while idle
  args,            \* the other arguments of that operation
  ret,             \* its result
  db,              \* the threats table: Threat rows in primary-key order
  library,         \* the module-level dict THREAT_PATTERNS, as the process holds it
  last_call        \* the call completed last, where calls are recorded

vars == << asset, flow, trust_boundary, op, args, ret, db, library, last_call >>

-----------------------------------------------------------------------------
(* Bounds of the model *)

\* longest flow text of a request, in words of Vocab
MaxWords == 2

\* longest stride_categories list of a get_mitigations call
MaxCats == 3

\* the threats table holds up to MaxThreats rows
MaxThreats == 3

\* longest list of matches handed to get_suggested_dread_from_patterns itself
MaxMatches == 2

-----------------------------------------------------------------------------
(* Python values *)

\* None, distinct from every text (no text has a multi-character element)
None == << "None" >>

\* a test that takes every str for true, as `is not None` would
not_none(s) == s # None

\* truth value of an Optional[str]: None and "" are falsy
Truthy(s) == s # None /\ s # << >>

\* `s or ''`
OrEmpty(s) == IF Truthy(s) THEN s ELSE << >>

\* the ASCII capitals and their lowercase forms
ToLower ==
     ("A" :> "a") @@ ("B" :> "b") @@ ("C" :> "c") @@ ("D" :> "d") @@ ("E" :> "e")
  @@ ("F" :> "f") @@ ("G" :> "g") @@ ("H" :> "h") @@ ("I" :> "i") @@ ("J" :> "j")
  @@ ("K" :> "k") @@ ("L" :> "l") @@ ("M" :> "m") @@ ("N" :> "n") @@ ("O" :> "o")
  @@ ("P" :> "p") @@ ("Q" :> "q") @@ ("R" :> "r") @@ ("S" :> "s") @@ ("T" :> "t")
  @@ ("U" :> "u") @@ ("V" :> "v") @@ ("W" :> "w") @@ ("X" :> "x") @@ ("Y" :> "y")
  @@ ("Z" :> "z")

Capitals == DOMAIN ToLower

\* str.lower() on one character
lower_char(c) == IF c \in Capitals THEN ToLower[c] ELSE c

\* str.lower()
lower(s) == SubSeq([ i \in 1..Len(s) |-> lower_char(s[i]) ], 1, Len(s))

\* str.strip(): leading and trailing blanks removed
RECURSIVE strip(_)
strip(s) ==
  IF s = << >> THEN s
  ELSE IF Head(s) = " " THEN strip(Tail(s))
  ELSE IF s[Len(s)] = " " THEN strip(SubSeq(s, 1, Len(s) - 1))
  ELSE s

\* `kw in text` for two strings
contains(text, kw) ==
  LET n == Len(kw)
  IN  \E i \in 1..(Len(text) - n + 1) : \A k \in 1..n : text[i + k - 1] = kw[k]

\* any(keyword in text for keyword in keywords)
any_keyword(text, keywords) == \E k \in 1..Len(keywords) : contains(text, keywords[k])

\* f"{a} {b}"
fmt2(a, b) == a \o << " " >> \o b

\* f"{a} {b} {c}"
fmt3(a, b, c) == a \o << " " >> \o b \o << " " >> \o c

\* A trigger expression of the library is a sequence of lowercase literals
\* joined by ".*" (every expression of THREAT_PATTERNS has this form).
\* match_rest: the literals `parts` match in this order from index `from` on,
\* each ".*" spanning any run of characters other than a newline; with
\* re.IGNORECASE a character of the text matches a literal character when its
\* lowercase form does.
RECURSIVE match_rest(_, _, _)
match_rest(parts, text, from) ==
  IF parts = << >> THEN TRUE
  ELSE LET lit == parts[1]
           n == Len(lit)
       IN  \E i \in from..(Len(text) - n + 1) :
             /\ \A k \in 1..n : lower_char(text[i + k - 1]) = lit[k]
             /\ \A j \in from..(i - 1) : text[j] # "\n"
             /\ match_rest(Tail(parts), text, i + n)

\* re.search(pattern, text, re.IGNORECASE) is not None
re_search(parts, text) ==
  LET lit == parts[1]
      n == Len(lit)
  IN  \E i \in 1..(Len(text) - n + 1) :
        /\ \A k \in 1..n : lower_char(text[i + k - 1]) = lit[k]
        /\ match_rest(Tail(parts), text, i + n)

\* x in list
InList(x, list) == \E i \in 1..Len(list) : list[i] = x

\* set(list)
ToSet(list) == { list[i] : i \in 1..Len(list) }

\* a > b for two integer tuples of equal length (Python tuple comparison)
RECURSIVE TupleGreater(_, _)
TupleGreater(a, b) ==
  IF a = << >> THEN FALSE
  ELSE IF Head(a) # Head(b) THEN Head(a) > Head(b)
  ELSE TupleGreater(Tail(a), Tail(b))

\* list.sort(key=..., reverse=True) on the keys of a list: the indices of the
\* list in the order the sort leaves them.  The sort is stable, and with
\* reverse=True elements with equal keys still keep their original order:
\* index n goes before the first index already placed whose key is smaller.
RECURSIVE sort_reverse_upto(_, _)
sort_reverse_upto(keys, n) ==
  IF n = 0 THEN << >>
  ELSE LET done == sort_reverse_upto(keys, n - 1)
           smaller == { p \in 1..Len(done) : TupleGreater(keys[n], keys[done[p]]) }
           at == IF smaller = {} THEN Len(done) + 1
                 ELSE CHOOSE p \in smaller : \A q \in smaller : p <= q
       IN  SubSeq(done, 1, at - 1) \o << n >> \o SubSeq(done, at, Len(done))

\* a descending sort that leaves elements with equal keys in reverse order
sort_ties_reversed(keys) ==
  LET n == Len(keys)
      perm == sort_reverse_upto([ i \in 1..n |-> keys[n + 1 - i] ], n)
  IN  [ i \in 1..n |-> n + 1 - perm[i] ]

sort_reverse(keys) == sort_reverse_upto(keys, Len(keys))

\* the list reordered by a sequence of its indices
Permute(list, perm) == [ i \in 1..Len(perm) |-> list[perm[i]] ]

\* sum of the integers f[x], x \in S
RECURSIVE SumOver(_, _)
SumOver(f, S) ==
  IF S = {} THEN 0
  ELSE LET x == CHOOSE y \in S : TRUE IN f[x] + SumOver(f, S \ {x})

\* min(a, b), max(a, b) on integers
Min(a, b) == IF a < b THEN a ELSE b
Max(a, b) == IF a > b THEN a ELSE b

\* |a|
Abs(a) == IF a < 0 THEN 0 - a ELSE a

-----------------------------------------------------------------------------
(* threat_patterns.py: THREAT_PATTERNS, in declaration order.  Each trigger *)
(* expression is the sequence of its literals; confidence is in hundredths. *)

THREAT_PATTERNS ==
  <<
    [ name |-> "sql_injection",
      patterns |-> <<
        << <<"s","q","l">>, <<"q","u","e","r","y">>, <<"c","o","n","c","a","t","e","n","a","t">> >>,   \* sql.*query.*concatenat
        << <<"d","a","t","a","b","a","s","e">>, <<"s","t","r","i","n","g">>, <<"f","o","r","m","a","t">> >>,   \* database.*string.*format
        << <<"q","u","e","r","y">>, <<"w","i","t","h","o","u","t">>, <<"p","a","r","a","m","e","t","e","r">> >>,   \* query.*without.*parameter
        << <<"r","a","w">>, <<"s","q","l">>, <<"q","u","e","r","y">> >>,   \* raw.*sql.*query
        << <<"d","i","r","e","c","t">>, <<"s","q","l">>, <<"e","x","e","c","u","t","i","o","n">> >>,   \* direct.*sql.*execution
        << <<"u","n","s","a","n","i","t","i","z","e","d">>, <<"s","q","l">> >>,   \* unsanitized.*sql
        << <<"s","q","l">>, <<"i","n","j","e","c","t","i","o","n">> >>,   \* sql.*injection
        << <<"e","x","e","c","u","t","e">>, <<"q","u","e","r","y">>, <<"d","i","r","e","c","t","l","y">> >>   \* execute.*query.*directly
      >>,
      stride |-> << "Tampering", "Information Disclosure", "Elevation of Privilege" >>,
      suggested_dread |-> [damage |-> 9, reproducibility |-> 8, exploitability |-> 9, affected_users |-> 10, discoverability |-> 7],
      confidence |-> 90,
      component_types |-> << "database", "api", "backend" >> ],
    [ name |-> "xss",
      patterns |-> <<
        << <<"u","s","e","r">>, <<"i","n","p","u","t">>, <<"h","t","m","l">> >>,   \* user.*input.*html
        << <<"j","a","v","a","s","c","r","i","p","t">>, <<"i","n","j","e","c","t">> >>,   \* javascript.*inject
        << <<"o","u","t","p","u","t">>, <<"w","i","t","h","o","u","t">>, <<"s","a","n","i","t","i","z">> >>,   \* output.*without.*sanitiz
        << <<"c","r","o","s","s">>, <<"s","i","t","e">>, <<"s","c","r","i","p","t","i","n","g">> >>,   \* cross.*site.*scripting
        << <<"x","s","s">> >>,   \* xss
        << <<"r","e","n","d","e","r">>, <<"u","s","e","r">>, <<"c","o","n","t","e","n","t">> >>,   \* render.*user.*content
        << <<"i","n","n","e","r","h","t","m","l">>, <<"u","s","e","r">> >>,   \* innerhtml.*user
        << <<"e","v","a","l">>, <<"u","s","e","r">>, <<"i","n","p","u","t">> >>   \* eval.*user.*input
      >>,
      stride |-> << "Tampering", "Information Disclosure" >>,
      suggested_dread |-> [damage |-> 6, reproducibility |-> 7, exploitability |-> 6, affected_users |-> 7, discoverability |-> 5],
      confidence |-> 85,
      component_types |-> << "frontend", "web", "api" >> ],
    [ name |-> "authentication_bypass",
      patterns |-> <<
        << <<"a","u","t","h">>, <<"b","y","p","a","s","s">> >>,   \* auth.*bypass
        << <<"l","o","g","i","n">>, <<"w","i","t","h","o","u","t">>, <<"p","a","s","s","w","o","r","d">> >>,   \* login.*without.*password
        << <<"w","e","a","k">>, <<"a","u","t","h","e","n","t","i","c","a","t","i","o","n">> >>,   \* weak.*authentication
        << <<"n","o">>, <<"a","u","t","h","e","n","t","i","c","a","t","i","o","n">> >>,   \* no.*authentication
        << <<"b","y","p","a","s","s">>, <<"a","u","t","h">> >>,   \* bypass.*auth
        << <<"s","k","i","p">>, <<"a","u","t","h","e","n","t","i","c","a","t","i","o","n">> >>,   \* skip.*authentication
        << <<"d","e","f","a","u","l","t">>, <<"c","r","e","d","e","n","t","i","a","l">> >>,   \* default.*credential
        << <<"h","a","r","d","c","o","d","e","d">>, <<"p","a","s","s","w","o","r","d">> >>   \* hardcoded.*password
      >>,
      stride |-> << "Spoofing", "Elevation of Privilege" >>,
      suggested_dread |-> [damage |-> 10, reproducibility |-> 8, exploitability |-> 9, affected_users |-> 10, discoverability |-> 6],
      confidence |-> 90,
      component_types |-> << "authentication", "api", "backend" >> ],
    [ name |-> "idor",
      patterns |-> <<
        << <<"i","n","s","e","c","u","r","e">>, <<"d","i","r","e","c","t">>, <<"o","b","j","e","c","t">>, <<"r","e","f","e","r","e","n","c","e">> >>,   \* insecure.*direct.*object.*reference
        << <<"i","d","o","r">> >>,   \* idor
        << <<"a","c","c","e","s","s">>, <<"w","i","t","h","o","u","t">>, <<"a","u","t","h","o","r","i","z","a","t","i","o","n">> >>,   \* access.*without.*authorization
        << <<"d","i","r","e","c","t">>, <<"o","b","j","e","c","t">>, <<"a","c","c","e","s","s">> >>,   \* direct.*object.*access
        << <<"b","y","p","a","s","s">>, <<"a","u","t","h","o","r","i","z","a","t","i","o","n">> >>,   \* bypass.*authorization
        << <<"u","s","e","r">>, <<"i","d">>, <<"i","n">>, <<"u","r","l">> >>,   \* user.*id.*in.*url
        << <<"p","r","e","d","i","c","t","a","b","l","e">>, <<"r","e","s","o","u","r","c","e">>, <<"i","d">> >>   \* predictable.*resource.*id
      >>,
      stride |-> << "Elevation of Privilege", "Information Disclosure" >>,
      suggested_dread |-> [damage |-> 8, reproducibility |-> 9, exploitability |-> 8, affected_users |-> 8, discoverability |-> 7],
      confidence |-> 85,
      component_types |-> << "api", "backend", "authorization" >> ],
    [ name |-> "csrf",
      patterns |-> <<
        << <<"c","r","o","s","s">>, <<"s","i","t","e">>, <<"r","e","q","u","e","s","t">>, <<"f","o","r","g","e","r","y">> >>,   \* cross.*site.*request.*forgery
        << <<"c","s","r","f">> >>,   \* csrf
        << <<"n","o">>, <<"c","s","r","f">>, <<"t","o","k","e","n">> >>,   \* no.*csrf.*token
        << <<"s","t","a","t","e">>, <<"c","h","a","n","g","i","n","g">>, <<"r","e","q","u","e","s","t">> >>,   \* state.*changing.*request
        << <<"f","o","r","m">>, <<"w","i","t","h","o","u","t">>, <<"t","o","k","e","n">> >>,   \* form.*without.*token
        << <<"p","o","s","t">>, <<"r","e","q","u","e","s","t">>, <<"n","o">>, <<"v","a","l","i","d","a","t","i","o","n">> >>   \* post.*request.*no.*validation
      >>,
      stride |-> << "Tampering", "Repudiation" >>,
      suggested_dread |-> [damage |-> 7, reproducibility |-> 8, exploitability |-> 7, affected_users |-> 7, discoverability |-> 6],
      confidence |-> 80,
      component_types |-> << "web", "frontend", "api" >> ],
    [ name |-> "session_management",
      patterns |-> <<
        << <<"s","e","s","s","i","o","n">>, <<"f","i","x","a","t","i","o","n">> >>,   \* session.*fixation
        << <<"w","e","a","k">>, <<"s","e","s","s","i","o","n">>, <<"t","o","k","e","n">> >>,   \* weak.*session.*token
        << <<"s","e","s","s","i","o","n">>, <<"n","o","t">>, <<"e","x","p","i","r","e">> >>,   \* session.*not.*expire
        << <<"p","r","e","d","i","c","t","a","b","l","e">>, <<"s","e","s","s","i","o","n">>, <<"i","d">> >>,   \* predictable.*session.*id
        << <<"s","e","s","s","i","o","n">>, <<"h","i","j","a","c","k">> >>,   \* session.*hijack
        << <<"i","n","s","e","c","u","r","e">>, <<"s","e","s","s","i","o","n">>, <<"s","t","o","r","a","g","e">> >>   \* insecure.*session.*storage
      >>,
      stride |-> << "Spoofing", "Tampering" >>,
      suggested_dread |-> [damage |-> 8, reproducibility |-> 7, exploitability |-> 7, affected_users |-> 8, discoverability |-> 6],
      confidence |-> 85,
      component_types |-> << "authentication", "session", "web" >> ],
    [ name |-> "path_traversal",
      patterns |-> <<
        << <<"p","a","t","h">>, <<"t","r","a","v","e","r","s","a","l">> >>,   \* path.*traversal
        << <<"d","i","r","e","c","t","o","r","y">>, <<"t","r","a","v","e","r","s","a","l">> >>,   \* directory.*traversal
        << <<"f","i","l","e">>, <<"p","a","t","h">>, <<"m","a","n","i","p","u","l","a","t","i","o","n">> >>,   \* file.*path.*manipulation
        << <<".",".","/">>, <<"f","i","l","e">> >>,   \* \.\.\/.*file
        << <<"u","n","s","a","n","i","t","i","z","e","d">>, <<"f","i","l","e">>, <<"p","a","t","h">> >>,   \* unsanitized.*file.*path
        << <<"r","e","a","d">>, <<"f","i","l","e">>, <<"a","r","b","i","t","r","a","r","y">> >>   \* read.*file.*arbitrary
      >>,
      stride |-> << "Information Disclosure", "Tampering" >>,
      suggested_dread |-> [damage |-> 7, reproducibility |-> 8, exploitability |-> 7, affected_users |-> 6, discoverability |-> 5],
      confidence |-> 85,
      component_types |-> << "file_system", "api", "backend" >> ],
    [ name |-> "command_injection",
      patterns |-> <<
        << <<"c","o","m","m","a","n","d">>, <<"i","n","j","e","c","t","i","o","n">> >>,   \* command.*injection
        << <<"o","s">>, <<"c","o","m","m","a","n","d">>, <<"e","x","e","c","u","t","e">> >>,   \* os.*command.*execute
        << <<"s","h","e","l","l">>, <<"c","o","m","m","a","n","d">>, <<"u","s","e","r">>, <<"i","n","p","u","t">> >>,   \* shell.*command.*user.*input
        << <<"s","y","s","t","e","m">>, <<"c","a","l","l">>, <<"u","n","s","a","f","e">> >>,   \* system.*call.*unsafe
        << <<"e","x","e","c">>, <<"u","s","e","r">>, <<"i","n","p","u","t">> >>,   \* exec.*user.*input
        << <<"s","u","b","p","r","o","c","e","s","s">>, <<"u","s","e","r">>, <<"d","a","t","a">> >>   \* subprocess.*user.*data
      >>,
      stride |-> << "Tampering", "Elevation of Privilege", "Denial of Service" >>,
      suggested_dread |-> [damage |-> 9, reproducibility |-> 8, exploitability |-> 7, affected_users |-> 8, discoverability |-> 6],
      confidence |-> 90,
      component_types |-> << "backend", "system", "api" >> ],
    [ name |-> "xxe",
      patterns |-> <<
        << <<"x","m","l">>, <<"e","x","t","e","r","n","a","l">>, <<"e","n","t","i","t","y">> >>,   \* xml.*external.*entity
        << <<"x","x","e">> >>,   \* xxe
        << <<"x","m","l">>, <<"p","a","r","s","e">>, <<"u","n","s","a","f","e">> >>,   \* xml.*parse.*unsafe
        << <<"e","x","t","e","r","n","a","l">>, <<"e","n","t","i","t","y">>, <<"i","n","j","e","c","t","i","o","n">> >>,   \* external.*entity.*injection
        << <<"x","m","l">>, <<"b","o","m","b">> >>   \* xml.*bomb
      >>,
      stride |-> << "Information Disclosure", "Denial of Service" >>,
      suggested_dread |-> [damage |-> 7, reproducibility |-> 7, exploitability |-> 6, affected_users |-> 6, discoverability |-> 5],
      confidence |-> 80,
      component_types |-> << "xml_parser", "api", "backend" >> ],
    [ name |-> "insecure_deserialization",
      patterns |-> <<
        << <<"i","n","s","e","c","u","r","e">>, <<"d","e","s","e","r","i","a","l","i","z">> >>,   \* insecure.*deserializ
        << <<"u","n","t","r","u","s","t","e","d">>, <<"d","e","s","e","r","i","a","l","i","z">> >>,   \* untrusted.*deserializ
        << <<"p","i","c","k","l","e">>, <<"u","n","s","a","f","e">> >>,   \* pickle.*unsafe
        << <<"y","a","m","l">>, <<"l","o","a","d">>, <<"u","n","s","a","f","e">> >>,   \* yaml.*load.*unsafe
        << <<"j","s","o","n">>, <<"d","e","s","e","r","i","a","l","i","z">>, <<"u","n","s","a","f","e">> >>   \* json.*deserializ.*unsafe
      >>,
      stride |-> << "Tampering", "Elevation of Privilege", "Denial of Service" >>,
      suggested_dread |-> [damage |-> 8, reproducibility |-> 7, exploitability |-> 6, affected_users |-> 7, discoverability |-> 4],
      confidence |-> 80,
      component_types |-> << "api", "backend", "data_processing" >> ],
    [ name |-> "ssrf",
      patterns |-> <<
        << <<"s","e","r","v","e","r">>, <<"s","i","d","e">>, <<"r","e","q","u","e","s","t">>, <<"f","o","r","g","e","r","y">> >>,   \* server.*side.*request.*forgery
        << <<"s","s","r","f">> >>,   \* ssrf
        << <<"f","e","t","c","h">>, <<"u","r","l">>, <<"u","s","e","r">>, <<"i","n","p","u","t">> >>,   \* fetch.*url.*user.*input
        << <<"r","e","q","u","e","s","t">>, <<"a","r","b","i","t","r","a","r","y">>, <<"u","r","l">> >>,   \* request.*arbitrary.*url
        << <<"p","r","o","x","y">>, <<"u","s","e","r">>, <<"u","r","l">> >>   \* proxy.*user.*url
      >>,
      stride |-> << "Tampering", "Information Disclosure", "Denial of Service" >>,
      suggested_dread |-> [damage |-> 7, reproducibility |-> 8, exploitability |-> 7, affected_users |-> 6, discoverability |-> 6],
      confidence |-> 85,
      component_types |-> << "api", "backend", "network" >> ],
    [ name |-> "broken_access_control",
      patterns |-> <<
        << <<"b","r","o","k","e","n">>, <<"a","c","c","e","s","s">>, <<"c","o","n","t","r","o","l">> >>,   \* broken.*access.*control
        << <<"m","i","s","s","i","n","g">>, <<"a","u","t","h","o","r","i","z","a","t","i","o","n">> >>,   \* missing.*authorization
        << <<"n","o">>, <<"p","e","r","m","i","s","s","i","o","n">>, <<"c","h","e","c","k">> >>,   \* no.*permission.*check
        << <<"b","y","p","a","s","s">>, <<"a","c","c","e","s","s">>, <<"c","o","n","t","r","o","l">> >>,   \* bypass.*access.*control
        << <<"w","e","a","k">>, <<"a","u","t","h","o","r","i","z","a","t","i","o","n">> >>   \* weak.*authorization
      >>,
      stride |-> << "Elevation of Privilege", "Information Disclosure" >>,
      suggested_dread |-> [damage |-> 9, reproducibility |-> 8, exploitability |-> 8, affected_users |-> 9, discoverability |-> 7],
      confidence |-> 90,
      component_types |-> << "authorization", "api", "backend" >> ],
    [ name |-> "sensitive_data_exposure",
      patterns |-> <<
        << <<"s","e","n","s","i","t","i","v","e">>, <<"d","a","t","a">>, <<"e","x","p","o","s","u","r","e">> >>,   \* sensitive.*data.*exposure
        << <<"p","a","s","s","w","o","r","d">>, <<"p","l","a","i","n","t","e","x","t">> >>,   \* password.*plaintext
        << <<"c","r","e","d","i","t">>, <<"c","a","r","d">>, <<"u","n","e","n","c","r","y","p","t","e","d">> >>,   \* credit.*card.*unencrypted
        << <<"p","i","i">>, <<"u","n","e","n","c","r","y","p","t","e","d">> >>,   \* pii.*unencrypted
        << <<"s","e","c","r","e","t">>, <<"i","n">>, <<"l","o","g">> >>,   \* secret.*in.*log
        << <<"a","p","i">>, <<"k","e","y">>, <<"e","x","p","o","s","e","d">> >>   \* api.*key.*exposed
      >>,
      stride |-> << "Information Disclosure" >>,
      suggested_dread |-> [damage |-> 9, reproducibility |-> 10, exploitability |-> 8, affected_users |-> 10, discoverability |-> 8],
      confidence |-> 90,
      component_types |-> << "data_store", "api", "logging" >> ],
    [ name |-> "dos",
      patterns |-> <<
        << <<"d","e","n","i","a","l">>, <<"o","f">>, <<"s","e","r","v","i","c","e">> >>,   \* denial.*of.*service
        << <<"d","o","s">> >>,   \* dos
        << <<"r","e","s","o","u","r","c","e">>, <<"e","x","h","a","u","s","t","i","o","n">> >>,   \* resource.*exhaustion
        << <<"r","a","t","e">>, <<"l","i","m","i","t">>, <<"m","i","s","s","i","n","g">> >>,   \* rate.*limit.*missing
        << <<"u","n","l","i","m","i","t","e","d">>, <<"r","e","q","u","e","s","t","s">> >>,   \* unlimited.*requests
        << <<"e","x","p","e","n","s","i","v","e">>, <<"o","p","e","r","a","t","i","o","n">>, <<"n","o">>, <<"l","i","m","i","t">> >>   \* expensive.*operation.*no.*limit
      >>,
      stride |-> << "Denial of Service" >>,
      suggested_dread |-> [damage |-> 6, reproducibility |-> 9, exploitability |-> 8, affected_users |-> 9, discoverability |-> 7],
      confidence |-> 85,
      component_types |-> << "api", "backend", "network" >> ]
  >>

\* the keyword groups of detect_component_type, in the order it tests them

kw_database ==
  << <<"d","a","t","a","b","a","s","e">>,
     <<"d","b">>,
     <<"p","o","s","t","g","r","e","s">>,
     <<"m","y","s","q","l">>,
     <<"m","o","n","g","o","d","b">>,
     <<"s","q","l">> >>

kw_api ==
  << <<"a","p","i">>,
     <<"e","n","d","p","o","i","n","t">>,
     <<"r","e","s","t">>,
     <<"g","r","a","p","h","q","l">>,
     <<"s","e","r","v","i","c","e">> >>

kw_authentication ==
  << <<"a","u","t","h">>,
     <<"l","o","g","i","n">>,
     <<"c","r","e","d","e","n","t","i","a","l">>,
     <<"t","o","k","e","n">>,
     <<"s","e","s","s","i","o","n">> >>

kw_authorization ==
  << <<"a","u","t","h","o","r","i","z","e">>,
     <<"p","e","r","m","i","s","s","i","o","n">>,
     <<"r","o","l","e">>,
     <<"a","c","c","e","s","s"," ","c","o","n","t","r","o","l">> >>

kw_frontend ==
  << <<"f","r","o","n","t","e","n","d">>,
     <<"u","i">>,
     <<"w","e","b">>,
     <<"b","r","o","w","s","e","r">>,
     <<"c","l","i","e","n","t">> >>

kw_backend ==
  << <<"b","a","c","k","e","n","d">>,
     <<"s","e","r","v","e","r">>,
     <<"a","p","p","l","i","c","a","t","i","o","n">> >>

kw_file_system ==
  << <<"f","i","l","e">>,
     <<"s","t","o","r","a","g","e">>,
     <<"s","3">>,
     <<"b","l","o","b">> >>

kw_network ==
  << <<"n","e","t","w","o","r","k">>,
     <<"h","t","t","p">>,
     <<"h","t","t","p","s">>,
     <<"t","c","p">>,
     <<"u","d","p">> >>

kw_logging ==
  << <<"l","o","g">>,
     <<"a","u","d","i","t">>,
     <<"m","o","n","i","t","o","r","i","n","g">> >>

\* the keyword groups of STRIDEEngine.analyze_threat

kw_flow_auth ==
  << <<"a","u","t","h">>,
     <<"l","o","g","i","n">>,
     <<"c","r","e","d","e","n","t","i","a","l">>,
     <<"p","a","s","s","w","o","r","d">>,
     <<"t","o","k","e","n">> >>

kw_flow_store ==
  << <<"s","t","o","r","e">>,
     <<"d","a","t","a","b","a","s","e">>,
     <<"f","i","l","e">>,
     <<"s","a","v","e">> >>

kw_flow_external ==
  << <<"e","x","t","e","r","n","a","l">>,
     <<"t","h","i","r","d","-","p","a","r","t","y">>,
     <<"a","p","i">>,
     <<"s","e","r","v","i","c","e">> >>

kw_flow_network ==
  << <<"n","e","t","w","o","r","k">>,
     <<"h","t","t","p">>,
     <<"h","t","t","p","s">>,
     <<"t","c","p">>,
     <<"u","d","p">>,
     <<"s","e","n","d">>,
     <<"r","e","c","e","i","v","e">> >>

kw_flow_log ==
  << <<"l","o","g">>,
     <<"a","u","d","i","t">>,
     <<"r","e","c","o","r","d">> >>

kw_boundary == <<"b","o","u","n","d","a","r","y">>

kw_cross == <<"c","r","o","s","s">>

\* the keyword lists of DREADScorer._adjust_scores_by_context

critical_keywords ==
  << <<"p","a","y","m","e","n","t">>,
     <<"f","i","n","a","n","c","i","a","l">>,
     <<"b","a","n","k">>,
     <<"c","r","e","d","i","t"," ","c","a","r","d">>,
     <<"p","i","i">>,
     <<"p","e","r","s","o","n","a","l"," ","d","a","t","a">>,
     <<"h","e","a","l","t","h">>,
     <<"m","e","d","i","c","a","l">>,
     <<"p","a","t","i","e","n","t">>,
     <<"a","u","t","h","e","n","t","i","c","a","t","i","o","n">>,
     <<"a","u","t","h","o","r","i","z","a","t","i","o","n">>,
     <<"a","d","m","i","n">>,
     <<"r","o","o","t">>,
     <<"c","r","i","t","i","c","a","l">>,
     <<"p","r","o","d","u","c","t","i","o","n">>,
     <<"l","i","v","e">> >>

external_keywords ==
  << <<"p","u","b","l","i","c">>,
     <<"i","n","t","e","r","n","e","t">>,
     <<"e","x","t","e","r","n","a","l">>,
     <<"a","p","i">>,
     <<"w","e","b">>,
     <<"h","t","t","p">> >>

-----------------------------------------------------------------------------
(* threat_patterns.py: component classifier and pattern matcher *)

\* generic appended to whatever was detected
and_generic(component_types) == component_types \o << "generic" >>

\* `if not component_types: component_types.append('generic')`
or_generic(component_types) ==
  IF component_types # << >> THEN component_types ELSE << "generic" >>

\* the tags of the keyword groups that have a keyword in text, in the order
\* detect_component_type tests them
detected_tags(text) ==
  LET tag(keywords, name) == IF any_keyword(text, keywords) THEN << name >> ELSE << >>
  IN     tag(kw_database, "database")
      \o tag(kw_api, "api")
      \o tag(kw_authentication, "authentication")
      \o tag(kw_authorization, "authorization")
      \o tag(kw_frontend, "frontend")
      \o tag(kw_backend, "backend")
      \o tag(kw_file_system, "file_system")
      \o tag(kw_network, "network")
      \o tag(kw_logging, "logging")

\* detect_component_type(asset, flow): the list of detected tags
detect_component_type(a, f) == or_generic(detected_tags(lower(fmt2(a, f))))

\* matched_patterns of one pattern is non-empty: a trigger expression matches
pattern_matched(pattern_data, text) ==
  \E k \in 1..Len(pattern_data.patterns) : re_search(pattern_data.patterns[k], text)

\* the boost given whatever the components are
resolve_confidence_boosted(pattern_data, text, component_types) ==
  Min(pattern_data.confidence + 10, 100)

\* the confidence match_threat_patterns resolves for one pattern: the base
\* weight once a trigger matched, then the component boost
resolve_confidence(pattern_data, text, component_types) ==
  LET confidence == IF pattern_matched(pattern_data, text) THEN pattern_data.confidence ELSE 0
  IN  IF \E i \in 1..Len(component_types) : InList(component_types[i], pattern_data.component_types)
      THEN Min(confidence + 10, 100)
      ELSE confidence

\* the matches list before the sort, from pattern k on: a match is
\* (pattern_name, confidence, pattern_data), data being the pattern's index
RECURSIVE collect_matches(_, _, _)
collect_matches(k, text, component_types) ==
  IF k > Len(THREAT_PATTERNS) THEN << >>
  ELSE LET pattern_data == THREAT_PATTERNS[k]
           this == IF pattern_matched(pattern_data, text)
                   THEN << [ name |-> pattern_data.name,
                             confidence |-> resolve_confidence(pattern_data, text, component_types),
                             data |-> k ] >>
                   ELSE << >>
       IN  this \o collect_matches(k + 1, text, component_types)

\* matches.sort(key=lambda x: x[1], reverse=True)
sort_matches(matches) ==
  Permute(matches, sort_reverse([ i \in 1..Len(matches) |-> << matches[i].confidence >> ]))

\* match_threat_patterns(asset, flow, trust_boundary)
match_threat_patterns(a, f, tb) ==
  sort_matches(collect_matches(1, lower(fmt3(a, f, OrEmpty(tb))), detect_component_type(a, f)))

\* the categories of the first match alone
stride_of_primary(matched_patterns) ==
  IF matched_patterns = << >> THEN {}
  ELSE ToSet(THREAT_PATTERNS[matched_patterns[1].data].stride)

\* get_stride_from_patterns(matched_patterns): list(set(...)); the order of the
\* list is the iteration order of a Python set of strings, which the code does
\* not fix, so the result is kept as a set
get_stride_from_patterns(matched_patterns) ==
  UNION { ToSet(THREAT_PATTERNS[matched_patterns[i].data].stride) : i \in 1..Len(matched_patterns) }

\* the five DREAD dimensions
DreadKeys == { "damage", "reproducibility", "exploitability", "affected_users", "discoverability" }

\* round(n / d) for integers n >= 0, d > 0: Python 3 rounds halves to even
round_half_even(n, d) ==
  LET q == n \div d
      r == n % d
  IN  IF 2 * r < d THEN q
      ELSE IF 2 * r > d THEN q + 1
      ELSE IF q % 2 = 0 THEN q ELSE q + 1

\* a baseline that takes the plain mean of the matches, whatever their confidence
suggested_dread_unweighted(matched_patterns) ==
  IF matched_patterns = << >>
  THEN [ key \in DreadKeys |-> 5 ]
  ELSE [ key \in DreadKeys |->
           round_half_even(
             SumOver([ i \in 1..Len(matched_patterns) |->
                        THREAT_PATTERNS[matched_patterns[i].data].suggested_dread[key] ],
                     1..Len(matched_patterns)),
             Len(matched_patterns)) ]

\* get_suggested_dread_from_patterns(matched_patterns): the weight of a match
\* is confidence / total_weight, so a dimension is
\* sum(dread * confidence) / total_weight, rounded
get_suggested_dread_from_patterns(matched_patterns) ==
  IF matched_patterns = << >>
  THEN [ key \in DreadKeys |-> 5 ]
  ELSE LET idx == 1..Len(matched_patterns)
           sum_conf == SumOver([ i \in idx |-> matched_patterns[i].confidence ], idx)
           total_weight == IF sum_conf = 0 THEN 100 ELSE sum_conf
       IN  [ key \in DreadKeys |->
               round_half_even(
                 SumOver([ i \in idx |->
                            THREAT_PATTERNS[matched_patterns[i].data].suggested_dread[key]
                              * matched_patterns[i].confidence ], idx),
                 total_weight) ]

-----------------------------------------------------------------------------
(* stride_dread_engine.py: STRIDEEngine *)

\* STRIDEEngine.STRIDE_MAP['Data Flow Crossing Boundary']
STRIDE_MAP_boundary == { "Tampering", "Information Disclosure" }

\* the categories as found, without a default
without_default(categories, tb) == categories

\* `if not categories:` the default of analyze_threat: the categories of a
\* data flow crossing a boundary when there is a trust boundary, else Tampering
\* and Information Disclosure
with_default(categories, tb) ==
  IF categories # {} THEN categories
  ELSE IF Truthy(tb) THEN STRIDE_MAP_boundary
  ELSE { "Tampering", "Information Disclosure" }

\* the categories analyze_threat adds for the lowercased flow and the trust
\* boundary, before its default
flow_categories(flow_lower, tb) ==
  (IF any_keyword(flow_lower, kw_flow_auth)
     THEN { "Spoofing", "Elevation of Privilege" } ELSE {})
  \cup
  (IF Truthy(tb) \/ contains(flow_lower, kw_boundary) \/ contains(flow_lower, kw_cross)
     THEN { "Tampering", "Information Disclosure" } ELSE {})
  \cup
  (IF any_keyword(flow_lower, kw_flow_store)
     THEN { "Tampering", "Information Disclosure", "Denial of Service" } ELSE {})
  \cup
  (IF any_keyword(flow_lower, kw_flow_external)
     THEN { "Spoofing", "Repudiation" } ELSE {})
  \cup
  (IF any_keyword(flow_lower, kw_flow_network)
     THEN { "Tampering", "Information Disclosure", "Denial of Service" } ELSE {})
  \cup
  (IF any_keyword(flow_lower, kw_flow_log)
     THEN { "Repudiation" } ELSE {})

\* STRIDEEngine.analyze_threat(asset, flow, trust_boundary): list(categories),
\* kept as a set
analyze_threat(a, f, tb) == with_default(flow_categories(lower(f), tb), tb)

\* a rational n/d in lowest terms, d > 0
RECURSIVE GCD(_, _)
GCD(x, y) == IF y = 0 THEN x ELSE GCD(y, x % y)

Rat(n, d) == LET g == GCD(Abs(n), d) IN [ n |-> n \div g, d |-> d \div g ]

RatAdd(x, y) == Rat(x.n * y.d + y.n * x.d, x.d * y.d)

RatLess(x, y) == x.n * y.d < y.n * x.d

\* a minimum that leaves its first argument uncapped
rat_uncapped(x, y) == x

RatMin(x, y) == IF RatLess(y, x) THEN y ELSE x

RatMax(x, y) == IF RatLess(x, y) THEN y ELSE x

\* relevant_patterns of analyze_threat_advanced: the matches whose pattern
\* lists the category
relevant_patterns(matched_patterns, category) ==
  { i \in 1..Len(matched_patterns) :
      InList(category, THREAT_PATTERNS[matched_patterns[i].data].stride) }

\* a category confidence that averages over every match, relevant or not
category_confidence_of_all(matched_patterns, relevant) ==
  IF matched_patterns # << >> /\ relevant # {}
  THEN Rat(SumOver([ i \in 1..Len(matched_patterns) |-> matched_patterns[i].confidence ],
                   1..Len(matched_patterns)),
           100 * Len(matched_patterns))
  ELSE Rat(1, 2)

\* stride_confidence[category]: the mean confidence of the relevant matches, a
\* rational over hundredths, 0.5 when there is none
category_confidence(matched_patterns, relevant) ==
  IF matched_patterns # << >> /\ relevant # {}
  THEN Rat(SumOver([ i \in relevant |-> matched_patterns[i].confidence ], relevant),
           100 * Cardinality(relevant))
  ELSE Rat(1, 2)

\* the dict analyze_threat_advanced returns
advanced_analysis_of(stride_categories, matched_patterns, component_types) ==
  [ stride_categories |-> stride_categories,
    stride_confidence |->
      [ category \in stride_categories |->
          category_confidence(matched_patterns, relevant_patterns(matched_patterns, category)) ],
    component_types |-> component_types,
    matched_patterns |-> [ i \in 1..Len(matched_patterns) |-> matched_patterns[i].name ],
    primary_pattern |-> IF matched_patterns # << >> THEN matched_patterns[1].name ELSE "None",
    pattern_confidence |-> IF matched_patterns # << >> THEN matched_patterns[1].confidence ELSE 0 ]

\* analyze_threat_advanced from its matches on: `if not stride_categories`
\* falls back to analyze_threat and forgets the matches
analyze_matched(a, f, tb, matched_patterns, stride_categories) ==
  IF stride_categories = {}
  THEN advanced_analysis_of(analyze_threat(a, f, tb), << >>, detect_component_type(a, f))
  ELSE advanced_analysis_of(stride_categories, matched_patterns, detect_component_type(a, f))

\* STRIDEEngine.analyze_threat_advanced(asset, flow, trust_boundary);
\* a confidence is a rational, sum(relevant) / len(relevant) over hundredths
analyze_threat_advanced(a, f, tb) ==
  analyze_matched(a, f, tb, match_threat_patterns(a, f, tb),
                  get_stride_from_patterns(match_threat_patterns(a, f, tb)))

\* the thresholds taken inclusively
risk_level_inclusive(sum) ==
  IF sum >= 7 * 5 THEN "High"
  ELSE IF sum >= 4 * 5 THEN "Medium"
  ELSE "Low"

\* the thresholds of the risk level on total_score = sum / 5: sum / 5 > 7 and
\* sum / 5 > 4, on the integer sum
risk_level_of(sum) ==
  IF sum > 7 * 5 THEN "High"
  ELSE IF sum > 4 * 5 THEN "Medium"
  ELSE "Low"

\* STRIDEEngine.calculate_dread_score; total_score is the rational sum / 5
\* (round(total_score, 2) changes nothing: a multiple of 0.2)
calculate_dread_score(damage, reproducibility, exploitability, affected_users, discoverability) ==
  LET sum == damage + reproducibility + exploitability + affected_users + discoverability
  IN  [ damage |-> damage,
        reproducibility |-> reproducibility,
        exploitability |-> exploitability,
        affected_users |-> affected_users,
        discoverability |-> discoverability,
        total_score |-> Rat(sum, 5),
        risk_level |-> risk_level_of(sum) ]

-----------------------------------------------------------------------------
(* dread_scorer.py: DREADScorer *)

\* dict[key] = value on a dict (a function on its keys)
DictSet(dict, key, value) ==
  [ k \in DOMAIN dict \cup { key } |-> IF k = key THEN value ELSE dict[k] ]

\* the increment without its cap
bump_uncapped(score) == score + 1

\* min(10, score + 1)
bump(score) == Min(score + 1, 10)

\* adjusted[key] = min(adjusted[key] + 1, 10) for two keys, when the condition holds
bump_two(scores, condition, key1, key2) ==
  IF condition
  THEN [ scores EXCEPT ![key1] = bump(@), ![key2] = bump(@) ]
  ELSE scores

\* adjusted["information_disclosure"] =
\*   min(adjusted.get("information_disclosure", adjusted["damage"]) + 1, 10),
\* damage being bumped already
set_information_disclosure(scores) ==
  DictSet(scores, "information_disclosure",
          bump(IF "information_disclosure" \in DOMAIN scores
               THEN scores["information_disclosure"] ELSE scores["damage"]))

\* a database branch that raises affected_users in place of damage
bump_database_users(scores, component_types) ==
  IF InList("database", component_types)
  THEN set_information_disclosure([ scores EXCEPT !["affected_users"] = bump(@) ])
  ELSE scores

\* the database branch of _adjust_scores_by_context
bump_database(scores, component_types) ==
  IF InList("database", component_types)
  THEN set_information_disclosure([ scores EXCEPT !["damage"] = bump(@) ])
  ELSE scores

\* _adjust_scores_by_context on the lowercased text of asset and flow
adjust_scores_by_text(base_scores, text, component_types) ==
  bump_database(
    bump_two(
      bump_two(
        bump_two(base_scores, any_keyword(text, critical_keywords), "damage", "affected_users"),
        any_keyword(text, external_keywords), "discoverability", "exploitability"),
      InList("authentication", component_types) \/ InList("authorization", component_types),
      "damage", "affected_users"),
    component_types)

\* DREADScorer._adjust_scores_by_context(base_scores, asset, flow, component_types)
adjust_scores_by_context(base_scores, a, f, component_types) ==
  adjust_scores_by_text(base_scores, lower(fmt2(a, f)), component_types)

\* DREADScorer._calculate_confidence(matched_patterns, scores, component_types):
\* a rational for every key of scores
calculate_confidence(matched_patterns, scores, component_types) ==
  LET idx == 1..Len(matched_patterns)
      avg_pattern_confidence ==
        IF matched_patterns # << >>
        THEN Rat(SumOver([ i \in idx |-> matched_patterns[i].confidence ], idx), 100 * Len(matched_patterns))
        ELSE Rat(4, 10)
      component_confidence_boost == IF component_types # << >> THEN Rat(1, 10) ELSE Rat(0, 1)
      base_confidence == RatMin(RatAdd(avg_pattern_confidence, component_confidence_boost), Rat(1, 1))
      \* the matches whose suggested_dread has the key
      with_key(key) == { i \in idx : key \in DOMAIN THREAT_PATTERNS[matched_patterns[i].data].suggested_dread }
      \* |scores[key] - avg_pattern_score| / 10
      score_diff_tenth(key) ==
        LET S == with_key(key)
            sum == SumOver([ i \in S |-> THREAT_PATTERNS[matched_patterns[i].data].suggested_dread[key] ], S)
        IN  Rat(Abs(scores[key] * Cardinality(S) - sum), 10 * Cardinality(S))
      score_confidence(key) ==
        LET d == score_diff_tenth(key)
        IN  RatMax(Rat(0, 1), Rat(d.d - d.n, d.d))
      half(x) == Rat(x.n, 2 * x.d)
  IN  [ key \in DOMAIN scores |->
          IF matched_patterns # << >>
          THEN IF with_key(key) # {}
               THEN half(RatAdd(base_confidence, score_confidence(key)))
               ELSE base_confidence
          ELSE base_confidence ]

\* the tier of a score in DREADScorer._generate_explanations, which selects
\* the message of the dimension
explanation_tier(score) ==
  IF score >= 8 THEN "high" ELSE IF score >= 5 THEN "moderate" ELSE "low"

\* DREADScorer._generate_explanations: a message per dimension, named by its
\* tier, and the names the two context sentences list
generate_explanations(scores, matched_patterns, component_types) ==
  [ damage |-> explanation_tier(scores["damage"]),
    reproducibility |-> explanation_tier(scores["reproducibility"]),
    exploitability |-> explanation_tier(scores["exploitability"]),
    affected_users |-> explanation_tier(scores["affected_users"]),
    discoverability |-> explanation_tier(scores["discoverability"]),
    pattern_context |-> [ i \in 1..Len(matched_patterns) |-> matched_patterns[i].name ],
    component_context |-> component_types ]

\* user_scores is None or a dict, given by its items: a set of (key, value)
\* pairs with distinct keys.  NoScores is None; {} is the empty dict.
NoScores == { << "None", 0 >> }

\* keys of the dict
DictKeys(items) == { p[1] : p \in items }

\* dict[key]
DictGet(items, key) == (CHOOSE p \in items : p[1] = key)[2]

\* overrides that skip a supplied value of 0, as `if user_scores.get(key)` would
apply_nonzero_user_scores(dict, adjusted_scores, user_scores, values) ==
  IF user_scores # NoScores /\ user_scores # {}
  THEN [ key \in DOMAIN dict |->
           IF /\ key \in DOMAIN adjusted_scores
              /\ key \in DictKeys(user_scores)
              /\ DictGet(user_scores, key) # 0
           THEN values[key] ELSE dict[key] ]
  ELSE dict

\* the user overrides of suggest_dread_scores on one dict: `if user_scores`,
\* then every key of adjusted_scores that user_scores has takes values[key]
apply_user_scores(dict, adjusted_scores, user_scores, values) ==
  IF user_scores # NoScores /\ user_scores # {}
  THEN [ key \in DOMAIN dict |->
           IF key \in DOMAIN adjusted_scores /\ key \in DictKeys(user_scores)
           THEN values[key] ELSE dict[key] ]
  ELSE dict

\* what suggest_dread_scores computes from the texts alone, the adjusted
\* scores being known
suggestion_context_of(matched_patterns, component_types, adjusted_scores) ==
  [ matched_patterns |-> matched_patterns,
    component_types |-> component_types,
    adjusted_scores |-> adjusted_scores,
    confidence_scores |-> calculate_confidence(matched_patterns, adjusted_scores, component_types) ]

\* the same, from the matches and the component types
suggestion_from(a, f, matched_patterns, component_types) ==
  suggestion_context_of(
    matched_patterns, component_types,
    adjust_scores_by_context(get_suggested_dread_from_patterns(matched_patterns),
                             a, f, component_types))

\* DREADScorer.suggest_dread_scores up to the user overrides: what it computes
\* from the texts alone
suggestion_context(a, f, tb) ==
  suggestion_from(a, f, match_threat_patterns(a, f, tb), detect_component_type(a, f))

\* DREADScorer.suggest_dread_scores from the user overrides on: the final
\* scores and confidences, the explanations and the returned dict
suggestion_result(context, user_scores) ==
  LET adjusted_scores == context.adjusted_scores
      user_value == [ key \in DictKeys(user_scores) |-> DictGet(user_scores, key) ]
      certain == [ key \in DictKeys(user_scores) |-> Rat(1, 1) ]
      final_scores == apply_user_scores(adjusted_scores, adjusted_scores, user_scores, user_value)
      final_confidence == apply_user_scores(context.confidence_scores, adjusted_scores,
                                            user_scores, certain)
  IN  [ suggested_scores |-> final_scores,
        confidence |-> final_confidence,
        explanations |-> generate_explanations(final_scores, context.matched_patterns,
                                               context.component_types),
        matched_patterns |-> [ i \in 1..Len(context.matched_patterns) |->
                                 context.matched_patterns[i].name ],
        component_types |-> context.component_types ]

\* DREADScorer.suggest_dread_scores(asset, flow, trust_boundary, user_scores)
suggest_dread_scores(a, f, tb, user_scores) ==
  suggestion_result(suggestion_context(a, f, tb), user_scores)

-----------------------------------------------------------------------------
(* enhanced_mitigations.py: EnhancedMitigationEngine.  A mitigation text is *)
(* the sequence of its characters.                                          *)

\* the dict pattern_mitigations of _get_pattern_mitigations: pattern_mitigations.get(pattern, [])
pattern_mitigations(pattern) ==
  CASE pattern = "sql_injection" ->
    <<
      \* URGENT: Use parameterized queries or prepared statements for all database operations
      [ text |-> <<"U","R","G","E","N","T",":"," ","U","s","e"," ","p","a","r","a","m","e","t","e","r","i","z","e","d"," ","q","u","e","r","i","e","s"," ","o","r"," ","p","r","e","p","a","r","e","d"," ","s","t","a","t","e","m","e","n","t","s"," ","f","o","r"," ","a","l","l"," ","d","a","t","a","b","a","s","e"," ","o","p","e","r","a","t","i","o","n","s">>,
        priority |-> "high", difficulty |-> "easy", effectiveness |-> 9 ],
      \* Implement input validation using whitelist approach
      [ text |-> <<"I","m","p","l","e","m","e","n","t"," ","i","n","p","u","t"," ","v","a","l","i","d","a","t","i","o","n"," ","u","s","i","n","g"," ","w","h","i","t","e","l","i","s","t"," ","a","p","p","r","o","a","c","h">>,
        priority |-> "high", difficulty |-> "medium", effectiveness |-> 8 ],
      \* Apply principle of least privilege to database user accounts
      [ text |-> <<"A","p","p","l","y"," ","p","r","i","n","c","i","p","l","e"," ","o","f"," ","l","e","a","s","t"," ","p","r","i","v","i","l","e","g","e"," ","t","o"," ","d","a","t","a","b","a","s","e"," ","u","s","e","r"," ","a","c","c","o","u","n","t","s">>,
        priority |-> "medium", difficulty |-> "medium", effectiveness |-> 7 ]
    >>
    [] pattern = "xss" ->
    <<
      \* Implement output encoding (HTML entity encoding) for all user-generated content
      [ text |-> <<"I","m","p","l","e","m","e","n","t"," ","o","u","t","p","u","t"," ","e","n","c","o","d","i","n","g"," ","(","H","T","M","L"," ","e","n","t","i","t","y"," ","e","n","c","o","d","i","n","g",")"," ","f","o","r"," ","a","l","l"," ","u","s","e","r","-","g","e","n","e","r","a","t","e","d"," ","c","o","n","t","e","n","t">>,
        priority |-> "high", difficulty |-> "easy", effectiveness |-> 9 ],
      \* Use Content Security Policy (CSP) headers
      [ text |-> <<"U","s","e"," ","C","o","n","t","e","n","t"," ","S","e","c","u","r","i","t","y"," ","P","o","l","i","c","y"," ","(","C","S","P",")"," ","h","e","a","d","e","r","s">>,
        priority |-> "high", difficulty |-> "medium", effectiveness |-> 8 ],
      \* Validate and sanitize all user input before rendering
      [ text |-> <<"V","a","l","i","d","a","t","e"," ","a","n","d"," ","s","a","n","i","t","i","z","e"," ","a","l","l"," ","u","s","e","r"," ","i","n","p","u","t"," ","b","e","f","o","r","e"," ","r","e","n","d","e","r","i","n","g">>,
        priority |-> "medium", difficulty |-> "medium", effectiveness |-> 7 ]
    >>
    [] pattern = "authentication_bypass" ->
    <<
      \* CRITICAL: Implement strong authentication mechanisms immediately
      [ text |-> <<"C","R","I","T","I","C","A","L",":"," ","I","m","p","l","e","m","e","n","t"," ","s","t","r","o","n","g"," ","a","u","t","h","e","n","t","i","c","a","t","i","o","n"," ","m","e","c","h","a","n","i","s","m","s"," ","i","m","m","e","d","i","a","t","e","l","y">>,
        priority |-> "high", difficulty |-> "hard", effectiveness |-> 10 ],
      \* Enable multi-factor authentication (MFA) for all users
      [ text |-> <<"E","n","a","b","l","e"," ","m","u","l","t","i","-","f","a","c","t","o","r"," ","a","u","t","h","e","n","t","i","c","a","t","i","o","n"," ","(","M","F","A",")"," ","f","o","r"," ","a","l","l"," ","u","s","e","r","s">>,
        priority |-> "high", difficulty |-> "medium", effectiveness |-> 9 ],
      \* Use secure password storage (bcrypt, Argon2)
      [ text |-> <<"U","s","e"," ","s","e","c","u","r","e"," ","p","a","s","s","w","o","r","d"," ","s","t","o","r","a","g","e"," ","(","b","c","r","y","p","t",","," ","A","r","g","o","n","2",")">>,
        priority |-> "high", difficulty |-> "easy", effectiveness |-> 8 ]
    >>
    [] OTHER -> << >>

\* the dict base_mitigations of _get_stride_mitigations: base_mitigations.get(category, [])
base_mitigations(category) ==
  CASE category = "Spoofing" ->
    <<
      \* Implement strong authentication mechanisms (MFA, certificate-based auth)
      [ text |-> <<"I","m","p","l","e","m","e","n","t"," ","s","t","r","o","n","g"," ","a","u","t","h","e","n","t","i","c","a","t","i","o","n"," ","m","e","c","h","a","n","i","s","m","s"," ","(","M","F","A",","," ","c","e","r","t","i","f","i","c","a","t","e","-","b","a","s","e","d"," ","a","u","t","h",")">>,
        priority |-> "high", difficulty |-> "medium", effectiveness |-> 9 ],
      \* Use digital signatures for critical communications
      [ text |-> <<"U","s","e"," ","d","i","g","i","t","a","l"," ","s","i","g","n","a","t","u","r","e","s"," ","f","o","r"," ","c","r","i","t","i","c","a","l"," ","c","o","m","m","u","n","i","c","a","t","i","o","n","s">>,
        priority |-> "medium", difficulty |-> "medium", effectiveness |-> 7 ]
    >>
    [] category = "Tampering" ->
    <<
      \* Use cryptographic signatures and integrity checks
      [ text |-> <<"U","s","e"," ","c","r","y","p","t","o","g","r","a","p","h","i","c"," ","s","i","g","n","a","t","u","r","e","s"," ","a","n","d"," ","i","n","t","e","g","r","i","t","y"," ","c","h","e","c","k","s">>,
        priority |-> "high", difficulty |-> "medium", effectiveness |-> 8 ],
      \* Implement input validation and sanitization
      [ text |-> <<"I","m","p","l","e","m","e","n","t"," ","i","n","p","u","t"," ","v","a","l","i","d","a","t","i","o","n"," ","a","n","d"," ","s","a","n","i","t","i","z","a","t","i","o","n">>,
        priority |-> "high", difficulty |-> "easy", effectiveness |-> 8 ],
      \* Use HTTPS/TLS for all network communications
      [ text |-> <<"U","s","e"," ","H","T","T","P","S","/","T","L","S"," ","f","o","r"," ","a","l","l"," ","n","e","t","w","o","r","k"," ","c","o","m","m","u","n","i","c","a","t","i","o","n","s">>,
        priority |-> "medium", difficulty |-> "easy", effectiveness |-> 7 ]
    >>
    [] category = "Repudiation" ->
    <<
      \* Implement comprehensive audit logging
      [ text |-> <<"I","m","p","l","e","m","e","n","t"," ","c","o","m","p","r","e","h","e","n","s","i","v","e"," ","a","u","d","i","t"," ","l","o","g","g","i","n","g">>,
        priority |-> "high", difficulty |-> "easy", effectiveness |-> 8 ],
      \* Use digital signatures for critical transactions
      [ text |-> <<"U","s","e"," ","d","i","g","i","t","a","l"," ","s","i","g","n","a","t","u","r","e","s"," ","f","o","r"," ","c","r","i","t","i","c","a","l"," ","t","r","a","n","s","a","c","t","i","o","n","s">>,
        priority |-> "medium", difficulty |-> "medium", effectiveness |-> 7 ],
      \* Implement non-repudiation mechanisms
      [ text |-> <<"I","m","p","l","e","m","e","n","t"," ","n","o","n","-","r","e","p","u","d","i","a","t","i","o","n"," ","m","e","c","h","a","n","i","s","m","s">>,
        priority |-> "medium", difficulty |-> "hard", effectiveness |-> 8 ]
    >>
    [] category = "Information Disclosure" ->
    <<
      \* Encrypt sensitive data at rest and in transit
      [ text |-> <<"E","n","c","r","y","p","t"," ","s","e","n","s","i","t","i","v","e"," ","d","a","t","a"," ","a","t"," ","r","e","s","t"," ","a","n","d"," ","i","n"," ","t","r","a","n","s","i","t">>,
        priority |-> "high", difficulty |-> "medium", effectiveness |-> 9 ],
      \* Implement proper access controls and least privilege
      [ text |-> <<"I","m","p","l","e","m","e","n","t"," ","p","r","o","p","e","r"," ","a","c","c","e","s","s"," ","c","o","n","t","r","o","l","s"," ","a","n","d"," ","l","e","a","s","t"," ","p","r","i","v","i","l","e","g","e">>,
        priority |-> "high", difficulty |-> "medium", effectiveness |-> 8 ],
      \* Use data masking for sensitive information in logs
      [ text |-> <<"U","s","e"," ","d","a","t","a"," ","m","a","s","k","i","n","g"," ","f","o","r"," ","s","e","n","s","i","t","i","v","e"," ","i","n","f","o","r","m","a","t","i","o","n"," ","i","n"," ","l","o","g","s">>,
        priority |-> "medium", difficulty |-> "easy", effectiveness |-> 6 ]
    >>
    [] category = "Denial of Service" ->
    <<
      \* Implement rate limiting and resource quotas
      [ text |-> <<"I","m","p","l","e","m","e","n","t"," ","r","a","t","e"," ","l","i","m","i","t","i","n","g"," ","a","n","d"," ","r","e","s","o","u","r","c","e"," ","q","u","o","t","a","s">>,
        priority |-> "high", difficulty |-> "easy", effectiveness |-> 8 ],
      \* Use load balancing and redundancy
      [ text |-> <<"U","s","e"," ","l","o","a","d"," ","b","a","l","a","n","c","i","n","g"," ","a","n","d"," ","r","e","d","u","n","d","a","n","c","y">>,
        priority |-> "medium", difficulty |-> "hard", effectiveness |-> 7 ],
      \* Implement DDoS protection
      [ text |-> <<"I","m","p","l","e","m","e","n","t"," ","D","D","o","S"," ","p","r","o","t","e","c","t","i","o","n">>,
        priority |-> "medium", difficulty |-> "medium", effectiveness |-> 8 ]
    >>
    [] category = "Elevation of Privilege" ->
    <<
      \* Implement principle of least privilege
      [ text |-> <<"I","m","p","l","e","m","e","n","t"," ","p","r","i","n","c","i","p","l","e"," ","o","f"," ","l","e","a","s","t"," ","p","r","i","v","i","l","e","g","e">>,
        priority |-> "high", difficulty |-> "medium", effectiveness |-> 9 ],
      \* Use role-based access control (RBAC)
      [ text |-> <<"U","s","e"," ","r","o","l","e","-","b","a","s","e","d"," ","a","c","c","e","s","s"," ","c","o","n","t","r","o","l"," ","(","R","B","A","C",")">>,
        priority |-> "high", difficulty |-> "medium", effectiveness |-> 8 ],
      \* Regular security audits and privilege reviews
      [ text |-> <<"R","e","g","u","l","a","r"," ","s","e","c","u","r","i","t","y"," ","a","u","d","i","t","s"," ","a","n","d"," ","p","r","i","v","i","l","e","g","e"," ","r","e","v","i","e","w","s">>,
        priority |-> "medium", difficulty |-> "medium", effectiveness |-> 7 ]
    >>
    [] OTHER -> << >>

\* EnhancedMitigationEngine._get_component_mitigations(component_types, risk_level)
get_component_mitigations(component_types, risk_level) ==
     (IF InList("database", component_types)
     THEN <<
      \* Enable database encryption at rest
      [ text |-> <<"E","n","a","b","l","e"," ","d","a","t","a","b","a","s","e"," ","e","n","c","r","y","p","t","i","o","n"," ","a","t"," ","r","e","s","t">>,
        priority |-> IF risk_level = "High" THEN "high" ELSE "medium", difficulty |-> "medium", effectiveness |-> 8 ],
      \* Implement database access controls and audit logging
      [ text |-> <<"I","m","p","l","e","m","e","n","t"," ","d","a","t","a","b","a","s","e"," ","a","c","c","e","s","s"," ","c","o","n","t","r","o","l","s"," ","a","n","d"," ","a","u","d","i","t"," ","l","o","g","g","i","n","g">>,
        priority |-> "high", difficulty |-> "medium", effectiveness |-> 8 ]
     >>
     ELSE << >>)
  \o (IF InList("api", component_types)
     THEN <<
      \* Implement API rate limiting and throttling
      [ text |-> <<"I","m","p","l","e","m","e","n","t"," ","A","P","I"," ","r","a","t","e"," ","l","i","m","i","t","i","n","g"," ","a","n","d"," ","t","h","r","o","t","t","l","i","n","g">>,
        priority |-> IF risk_level = "High" THEN "high" ELSE "medium", difficulty |-> "easy", effectiveness |-> 7 ],
      \* Use API authentication and authorization (OAuth2, API keys)
      [ text |-> <<"U","s","e"," ","A","P","I"," ","a","u","t","h","e","n","t","i","c","a","t","i","o","n"," ","a","n","d"," ","a","u","t","h","o","r","i","z","a","t","i","o","n"," ","(","O","A","u","t","h","2",","," ","A","P","I"," ","k","e","y","s",")">>,
        priority |-> "high", difficulty |-> "medium", effectiveness |-> 9 ]
     >>
     ELSE << >>)
  \o (IF InList("authentication", component_types)
     THEN <<
      \* Implement account lockout after failed login attempts
      [ text |-> <<"I","m","p","l","e","m","e","n","t"," ","a","c","c","o","u","n","t"," ","l","o","c","k","o","u","t"," ","a","f","t","e","r"," ","f","a","i","l","e","d"," ","l","o","g","i","n"," ","a","t","t","e","m","p","t","s">>,
        priority |-> "medium", difficulty |-> "easy", effectiveness |-> 7 ],
      \* Use secure session management with proper expiration
      [ text |-> <<"U","s","e"," ","s","e","c","u","r","e"," ","s","e","s","s","i","o","n"," ","m","a","n","a","g","e","m","e","n","t"," ","w","i","t","h"," ","p","r","o","p","e","r"," ","e","x","p","i","r","a","t","i","o","n">>,
        priority |-> "high", difficulty |-> "medium", effectiveness |-> 8 ]
     >>
     ELSE << >>)

\* EnhancedMitigationEngine._get_risk_level_mitigations(risk_level)
get_risk_level_mitigations(risk_level) ==
  IF risk_level = "High" THEN
    <<
      \* URGENT: Address immediately. Schedule security review and penetration testing.
      [ text |-> <<"U","R","G","E","N","T",":"," ","A","d","d","r","e","s","s"," ","i","m","m","e","d","i","a","t","e","l","y","."," ","S","c","h","e","d","u","l","e"," ","s","e","c","u","r","i","t","y"," ","r","e","v","i","e","w"," ","a","n","d"," ","p","e","n","e","t","r","a","t","i","o","n"," ","t","e","s","t","i","n","g",".">>,
        priority |-> "high", difficulty |-> "hard", effectiveness |-> 10 ],
      \* Implement temporary mitigation measures while permanent fix is developed
      [ text |-> <<"I","m","p","l","e","m","e","n","t"," ","t","e","m","p","o","r","a","r","y"," ","m","i","t","i","g","a","t","i","o","n"," ","m","e","a","s","u","r","e","s"," ","w","h","i","l","e"," ","p","e","r","m","a","n","e","n","t"," ","f","i","x"," ","i","s"," ","d","e","v","e","l","o","p","e","d">>,
        priority |-> "high", difficulty |-> "medium", effectiveness |-> 6 ]
    >>
  ELSE IF risk_level = "Medium" THEN
    <<
      \* Address within next sprint. Schedule security review.
      [ text |-> <<"A","d","d","r","e","s","s"," ","w","i","t","h","i","n"," ","n","e","x","t"," ","s","p","r","i","n","t","."," ","S","c","h","e","d","u","l","e"," ","s","e","c","u","r","i","t","y"," ","r","e","v","i","e","w",".">>,
        priority |-> "medium", difficulty |-> "medium", effectiveness |-> 7 ]
    >>
  ELSE
    <<
      \* Monitor and address in regular security maintenance.
      [ text |-> <<"M","o","n","i","t","o","r"," ","a","n","d"," ","a","d","d","r","e","s","s"," ","i","n"," ","r","e","g","u","l","a","r"," ","s","e","c","u","r","i","t","y"," ","m","a","i","n","t","e","n","a","n","c","e",".">>,
        priority |-> "low", difficulty |-> "easy", effectiveness |-> 5 ]
    >>
\* an escalation over a catalog shared between calls: the entries a High-risk
\* call escalated in place are still escalated in the call that follows it
escalate_shared(m, risk_level) ==
  IF /\ m.priority = "medium"
     /\ \/ risk_level = "High"
        \/ /\ Len(last_call) = 1
           /\ last_call[1].op = "get_mitigations"
           /\ last_call[1].args.risk_level = "High"
  THEN [ m EXCEPT !.priority = "high" ] ELSE m

\* the escalation at the end of _get_stride_mitigations
escalate(m, risk_level) ==
  IF risk_level = "High" /\ m.priority = "medium" THEN [ m EXCEPT !.priority = "high" ] ELSE m

\* the priority adjustment over a list of mitigations
escalate_all(mitigations, risk_level) ==
  [ i \in 1..Len(mitigations) |-> escalate(mitigations[i], risk_level) ]

\* EnhancedMitigationEngine._get_stride_mitigations(category, risk_level, ...):
\* the dicts of base_mitigations are built anew by every call, so the in-place
\* escalation changes the returned entries only
get_stride_mitigations(category, risk_level) ==
  escalate_all(base_mitigations(category), risk_level)

\* every text of the catalogs above
catalog_texts ==
  LET all == { pattern_mitigations(p) : p \in { "sql_injection", "xss", "authentication_bypass" } }
             \cup { base_mitigations(c) : c \in { "Spoofing", "Tampering", "Repudiation",
                                                  "Information Disclosure", "Denial of Service",
                                                  "Elevation of Privilege" } }
             \cup { get_component_mitigations(<< "database", "api", "authentication" >>, "High") }
             \cup { get_risk_level_mitigations(r) : r \in { "High", "Medium", "Low" } }
  IN  UNION { { list[i].text : i \in 1..Len(list) } : list \in all }

\* mitigation['text'].lower().strip() of the catalog texts, computed once
catalog_keys == [ text \in catalog_texts |-> strip(lower(text)) ]

\* the text_key of _prioritize_mitigations
text_key(m) ==
  IF m.text \in catalog_texts THEN catalog_keys[m.text] ELSE strip(lower(m.text))

\* a deduplication that keeps the last entry of each key: an entry is dropped
\* when a later one has its key
dedup_keep_last(mitigations, i, seen) ==
  LET kept == { j \in i..Len(mitigations) :
                  \A l \in (j + 1)..Len(mitigations) :
                    text_key(mitigations[l]) # text_key(mitigations[j]) }
      pick[j \in i..(Len(mitigations) + 1)] ==
        IF j > Len(mitigations) THEN << >>
        ELSE (IF j \in kept THEN << mitigations[j] >> ELSE << >>) \o pick[j + 1]
  IN  pick[i]

\* the deduplication loop of _prioritize_mitigations over mitigations[i..],
\* `seen` holding the keys met so far
RECURSIVE dedup_from(_, _, _)
dedup_from(mitigations, i, seen) ==
  IF i > Len(mitigations) THEN << >>
  ELSE LET key == text_key(mitigations[i])
       IN  IF key \notin seen
           THEN << mitigations[i] >> \o dedup_from(mitigations, i + 1, seen \cup { key })
           ELSE dedup_from(mitigations, i + 1, seen)

\* priority_order.get(x.get('priority', 'low'), 1)
priority_order(priority) ==
  CASE priority = "high" -> 3
    [] priority = "medium" -> 2
    [] priority = "low" -> 1
    [] OTHER -> 1

\* the sort key of _prioritize_mitigations
sort_key(m) == << priority_order(m.priority), m.effectiveness >>

\* a sort on the priority alone
sort_by_priority(unique) ==
  Permute(unique, sort_reverse([ i \in 1..Len(unique) |-> << priority_order(unique[i].priority) >> ]))

\* unique.sort(key=lambda x: (priority, effectiveness), reverse=True)
sort_unique(unique) ==
  Permute(unique, sort_reverse([ i \in 1..Len(unique) |-> sort_key(unique[i]) ]))

\* EnhancedMitigationEngine._prioritize_mitigations(mitigations, risk_level)
prioritize_mitigations(mitigations, risk_level) == sort_unique(dedup_from(mitigations, 1, {}))

\* the mitigations of the categories stride_categories[i..], in list order
RECURSIVE stride_mitigations_from(_, _, _)
stride_mitigations_from(stride_categories, i, risk_level) ==
  IF i > Len(stride_categories) THEN << >>
  ELSE get_stride_mitigations(stride_categories[i], risk_level)
         \o stride_mitigations_from(stride_categories, i + 1, risk_level)

\* THREAT_PATTERNS has the key
in_THREAT_PATTERNS(name) == \E k \in 1..Len(THREAT_PATTERNS) : THREAT_PATTERNS[k].name = name

\* an absent threat_pattern (None) and an absent component_types (None)
NoPattern == "None"

NoComponents == << "None" >>

\* the list get_mitigations collects before _prioritize_mitigations
collect_mitigations(stride_categories, risk_level, threat_pattern, component_types) ==
     (IF threat_pattern # NoPattern /\ in_THREAT_PATTERNS(threat_pattern)
        THEN pattern_mitigations(threat_pattern) ELSE << >>)
  \o stride_mitigations_from(stride_categories, 1, risk_level)
  \o (IF component_types # NoComponents /\ component_types # << >>
        THEN get_component_mitigations(component_types, risk_level) ELSE << >>)
  \o get_risk_level_mitigations(risk_level)

\* a count that takes in the entries of a higher priority as well
count_priority_or_higher(prioritized, priority) ==
  Cardinality({ i \in 1..Len(prioritized) :
                  priority_order(prioritized[i].priority) >= priority_order(priority) })

\* len([m for m in prioritized if m['priority'] == priority])
count_priority(prioritized, priority) ==
  Cardinality({ i \in 1..Len(prioritized) : prioritized[i].priority = priority })

\* the dict get_mitigations returns for the prioritized list
mitigations_result(prioritized) ==
  [ mitigations |-> prioritized,
    total_count |-> Len(prioritized),
    high_priority_count |-> count_priority(prioritized, "high"),
    medium_priority_count |-> count_priority(prioritized, "medium"),
    low_priority_count |-> count_priority(prioritized, "low") ]

\* EnhancedMitigationEngine.get_mitigations(stride_categories, risk_level,
\* threat_pattern, asset_type, component_types); asset_type is never read
get_mitigations(stride_categories, risk_level, threat_pattern, component_types) ==
  mitigations_result(
    prioritize_mitigations(
      collect_mitigations(stride_categories, risk_level, threat_pattern, component_types),
      risk_level))

-----------------------------------------------------------------------------
(* threat_similarity.py: ThreatSimilarityService, over the rows of the      *)
(* threats table.  A row is [id, asset, flow, trust_boundary,               *)
(* stride_categories, dread_score, risk_level, mitigation].                 *)

\* Threat.query.get(threat_id): the rows with this primary key (one or none)
rows_with_id(table, threat_id) == { i \in 1..Len(table) : table[i].id = threat_id }

\* every row of the table
rows_all(table, threat_id) == table

\* Threat.query.filter(Threat.id != threat_id).all(): the other rows, in
\* primary-key order
RECURSIVE rows_except(_, _)
rows_except(table, threat_id) ==
  IF table = << >> THEN << >>
  ELSE (IF Head(table).id # threat_id THEN << Head(table) >> ELSE << >>)
         \o rows_except(Tail(table), threat_id)

\* {name for name, _, _ in matches}
names_of(matches) == { matches[i].name : i \in 1..Len(matches) }

\* the pattern names of the texts the stored threats have, computed once:
\* the assets "API" and "Payment API" with the flows "xss", "SQL",
\* "SQL Login" and "SQL injection", without a trust boundary
stored_pattern_names ==
  [ texts \in { <<"A","P","I">>, <<"P","a","y","m","e","n","t"," ","A","P","I">> }
              \X { <<"x","s","s">>, <<"S","Q","L">>,
                   <<"S","Q","L"," ","L","o","g","i","n">>,
                   <<"S","Q","L"," ","i","n","j","e","c","t","i","o","n">> }
              \X { None } |->
      names_of(match_threat_patterns(texts[1], texts[2], texts[3])) ]

\* {name for name, _, _ in match_threat_patterns(...)}
pattern_names(threat) ==
  IF << threat.asset, threat.flow, threat.trust_boundary >> \in DOMAIN stored_pattern_names
  THEN stored_pattern_names[<< threat.asset, threat.flow, threat.trust_boundary >>]
  ELSE names_of(match_threat_patterns(threat.asset, threat.flow, threat.trust_boundary))

\* |A & B| / |A | B| when the union is not empty, else nothing is added
jaccard(A, B) ==
  IF A \cup B # {} THEN Rat(Cardinality(A \cap B), Cardinality(A \cup B)) ELSE Rat(0, 1)

\* a partial match that looks for the target's asset in the candidate's only
asset_similarity_one_way(target, candidate) ==
  IF lower(target.asset) = lower(candidate.asset) THEN Rat(1, 1)
  ELSE IF contains(lower(candidate.asset), lower(target.asset)) THEN Rat(1, 2)
  ELSE Rat(0, 1)

\* Factor 1 of _calculate_similarity
asset_similarity(target, candidate) ==
  LET t == lower(target.asset)
      c == lower(candidate.asset)
  IN  IF t = c THEN Rat(1, 1)
      ELSE IF contains(c, t) \/ contains(t, c) THEN Rat(1, 2)
      ELSE Rat(0, 1)

\* risk_levels.get(risk_level, 2)
risk_rank(risk_level) ==
  CASE risk_level = "Low" -> 1
    [] risk_level = "Medium" -> 2
    [] risk_level = "High" -> 3
    [] OTHER -> 2

\* Factor 4: max(0, 1.0 - risk_diff / 2.0)
risk_similarity(target, candidate) ==
  LET risk_diff == Abs(risk_rank(target.risk_level) - risk_rank(candidate.risk_level))
  IN  RatMax(Rat(0, 1), Rat(2 - risk_diff, 2))

\* dread.get(key, 5)
dread_get(dread, key) == IF key \in DOMAIN dread THEN dread[key] ELSE 5

\* Factor 5: the mean over the five keys of max(0, 1.0 - diff / 10.0)
dread_similarity(target, candidate) ==
  LET sim == [ key \in DreadKeys |->
                 Max(0, 10 - Abs(dread_get(target.dread_score, key)
                                   - dread_get(candidate.dread_score, key))) ]
  IN  Rat(SumOver(sim, DreadKeys), 10 * 5)

\* a mean whose divisor leaves one factor out
mean_of_four(score) == Rat(score.n, 4 * score.d)

\* score / factors, factors = 5
mean_of_factors(score) == Rat(score.n, 5 * score.d)

\* ThreatSimilarityService._calculate_similarity(target, candidate,
\* target_patterns, target_stride): score / factors
calculate_similarity(target, candidate, target_patterns, target_stride) ==
  mean_of_factors(
    RatAdd(asset_similarity(target, candidate),
    RatAdd(jaccard(target_stride, candidate.stride_categories),
    RatAdd(jaccard(target_patterns, pattern_names(candidate)),
    RatAdd(risk_similarity(target, candidate),
           dread_similarity(target, candidate))))))

\* round(x * scale) for a rational x >= 0, as an integer: round(x, 2) is
\* round_scaled(x, 100) hundredths, round(x * 100, 1) is round_scaled(x, 1000)
\* tenths of a percent
round_scaled(x, scale) == round_half_even(x.n * scale, x.d)

\* an entry whose percentage is computed from the rounded score
similarity_entry_of_rounded(threat, similarity_score) ==
  IF similarity_score.n > 0
  THEN << [ threat |-> threat,
            similarity_score |-> round_scaled(similarity_score, 100),
            similarity_percentage |-> 10 * round_scaled(similarity_score, 100) ] >>
  ELSE << >>

\* `if similarity_score > 0: similarities.append({...})`
similarity_entry(threat, similarity_score) ==
  IF similarity_score.n > 0
  THEN << [ threat |-> threat,
            similarity_score |-> round_scaled(similarity_score, 100),
            similarity_percentage |-> round_scaled(similarity_score, 1000) ] >>
  ELSE << >>

\* the entries appended by the loop of find_similar_threats over all_threats[i..]
RECURSIVE similarities_from(_, _, _, _, _)
similarities_from(all_threats, i, target, target_patterns, target_stride) ==
  IF i > Len(all_threats) THEN << >>
  ELSE similarity_entry(all_threats[i],
                        calculate_similarity(target, all_threats[i], target_patterns, target_stride))
       \o similarities_from(all_threats, i + 1, target, target_patterns, target_stride)

\* list[:limit]
slice_to(list, limit) ==
  IF limit >= 0 THEN SubSeq(list, 1, Min(limit, Len(list)))
  ELSE SubSeq(list, 1, Max(Len(list) + limit, 0))

\* similarities.sort(key=lambda x: x['similarity_score'], reverse=True)
sort_similarities(similarities) ==
  Permute(similarities,
          sort_reverse([ i \in 1..Len(similarities) |->
                          << similarities[i].similarity_score >> ]))

\* the sorted similarities of target_threat to all_threats
similarities_to(target_threat, all_threats) ==
  sort_similarities(
    similarities_from(all_threats, 1, target_threat,
                      pattern_names(target_threat), target_threat.stride_categories))

\* the similarities list of find_similar_threats(threat_id, limit) after its
\* sort; the list does not depend on limit
sorted_similarities(table, threat_id) ==
  IF rows_with_id(table, threat_id) = {} THEN << >>
  ELSE similarities_to(table[CHOOSE i \in rows_with_id(table, threat_id) : TRUE],
                       rows_except(table, threat_id))

\* ThreatSimilarityService.find_similar_threats(threat_id, limit) on the table,
\* similarities being sorted_similarities(table, threat_id)
find_similar_threats(table, threat_id, similarities, limit) ==
  IF rows_with_id(table, threat_id) = {} THEN << >>
  ELSE slice_to(similarities, limit)

-----------------------------------------------------------------------------
(* api/threat_model.py and threat_detector.py: the handlers that persist    *)
(* threats                                                                  *)

\* the STRIDE categories in a fixed order
STRIDE ==
  << "Spoofing", "Tampering", "Repudiation", "Information Disclosure",
     "Denial of Service", "Elevation of Privilege" >>

\* a list of the categories of a set.  list(set) in the engine leaves the
\* order to the iteration order of a Python set; what is computed from this
\* list below does not depend on the order.
RECURSIVE list_of_from(_, _)
list_of_from(S, i) ==
  IF i > Len(STRIDE) THEN << >>
  ELSE (IF STRIDE[i] \in S THEN << STRIDE[i] >> ELSE << >>) \o list_of_from(S, i + 1)

list_of(S) == list_of_from(S, 1)

\* the texts of a list of mitigations
texts_of(mitigations) == { mitigations[i].text : i \in 1..Len(mitigations) }

\* the lines of STRIDEEngine.get_mitigation_recommendations(stride_categories,
\* risk_level): the texts of get_mitigations(stride_categories, risk_level),
\* which the engine joins by newlines; kept as the set of its lines
mitigation_lines(stride_categories, risk_level) ==
  texts_of(get_mitigations(list_of(stride_categories), risk_level,
                           NoPattern, NoComponents).mitigations)

\* lines joined by single spaces
RECURSIVE join_spaces(_)
join_spaces(lines) ==
  IF lines = << >> THEN << >>
  ELSE IF Len(lines) = 1 THEN lines[1]
  ELSE lines[1] \o << " " >> \o join_spaces(Tail(lines))

\* '\n'.join(mitigation_lines)
RECURSIVE join_lines(_)
join_lines(lines) ==
  IF lines = << >> THEN << >>
  ELSE IF Len(lines) = 1 THEN lines[1]
  ELSE lines[1] \o << "\n" >> \o join_lines(Tail(lines))

\* `'\n'.join(mitigation_lines) if mitigation_lines else 'No specific
\* mitigations identified.'`
lines_or_placeholder(lines) ==
  IF lines # << >> THEN join_lines(lines)
  ELSE << "N","o"," ","s","p","e","c","i","f","i","c"," ","m","i","t","i","g","a","t","i","o","n","s"," ","i","d","e","n","t","i","f","i","e","d","." >>

\* STRIDEEngine.get_mitigation_recommendations(stride_categories, risk_level):
\* [m['text'] for m in engine.get_mitigations(stride_categories,
\* risk_level)['mitigations']], joined
get_mitigation_recommendations(stride_categories, risk_level) ==
  lines_or_placeholder(
    [ i \in 1..Len(get_mitigations(stride_categories, risk_level,
                                   NoPattern, NoComponents).mitigations) |->
        get_mitigations(stride_categories, risk_level,
                        NoPattern, NoComponents).mitigations[i].text ])

\* sum(dread_scores.values()): over every key of the dict
sum_values(dread_scores) == SumOver(dread_scores, DOMAIN dread_scores)

\* total_score = sum(dread_scores.values()) / 5.0 and the risk level derived
\* from it, as both handlers compute them
total_and_risk(dread_scores) ==
  LET sum == sum_values(dread_scores)
  IN  [ total_score |-> Rat(sum, 5), risk_level |-> risk_level_of(sum) ]

\* the manual scores of a request: every dimension is given
all_scores_given(scores) == scores # NoScores /\ DreadKeys \subseteq DictKeys(scores)

\* ThreatAnalyzeSchema accepts the request: asset has 1..200 characters
schema_valid(data) == Len(data.asset) >= 1 /\ Len(data.asset) <= 200

\* `user_scores if user_scores else None`
given_scores(scores) == IF scores # NoScores /\ scores # {} THEN scores ELSE NoScores

\* dread_scores of ThreatAnalyze.post: the suggested scores when auto_score,
\* else the five scores of the request
request_scores(data) ==
  IF data.auto_score
  THEN suggest_dread_scores(data.asset, data.flow, data.trust_boundary,
                            given_scores(data.scores)).suggested_scores
  ELSE [ key \in DreadKeys |-> DictGet(data.scores, key) ]

\* the Threat row (without its id) and the analysis of the response, the
\* total and the risk level being computed
analysis_response(data, advanced_analysis, dread_scores, tr) ==
  [ threat |-> [ asset |-> data.asset,
                 flow |-> data.flow,
                 trust_boundary |-> data.trust_boundary,
                 stride_categories |-> advanced_analysis.stride_categories,
                 dread_score |-> dread_scores,
                 risk_level |-> tr.risk_level,
                 mitigation |-> mitigation_lines(advanced_analysis.stride_categories,
                                                 tr.risk_level) ],
    analysis |-> [ advanced |-> advanced_analysis,
                   dread_score |-> tr.total_score,
                   risk_level |-> tr.risk_level,
                   auto_score |-> data.auto_score,
                   enhanced_total_count |->
                     get_mitigations(list_of(advanced_analysis.stride_categories),
                                     tr.risk_level,
                                     advanced_analysis.primary_pattern,
                                     advanced_analysis.component_types).total_count ] ]

\* ThreatAnalyze.post from the scores on
analyze_scored(data, advanced_analysis, dread_scores) ==
  analysis_response(data, advanced_analysis, dread_scores, total_and_risk(dread_scores))

\* ThreatAnalyze.post on a request that passed the schema and the check of the
\* manual scores: the Threat row (without its id) and the analysis returned
analyze_request(data) ==
  analyze_scored(data,
                 analyze_threat_advanced(data.asset, data.flow, data.trust_boundary),
                 request_scores(data))

\* the Threat row _create_or_link_threat builds, the total and the risk level
\* being computed
detector_row(a, f, stride_categories, dread_scores, tr) ==
  [ asset |-> a,
    flow |-> f,
    trust_boundary |-> None,
    stride_categories |-> stride_categories,
    dread_score |-> dread_scores,
    risk_level |-> tr.risk_level,
    mitigation |-> mitigation_lines(stride_categories, tr.risk_level) ]

\* _create_or_link_threat from the scores on
detector_scored(a, f, stride_categories, dread_scores) ==
  detector_row(a, f, stride_categories, dread_scores, total_and_risk(dread_scores))

\* ThreatDetector._create_or_link_threat for a finding that is not linked yet:
\* the Threat row (without its id) it creates
detector_threat(a, f) ==
  detector_scored(a, f,
                  analyze_threat_advanced(a, f, None).stride_categories,
                  suggest_dread_scores(a, f, None, NoScores).suggested_scores)

\* the row with its primary key
with_id(row, id) ==
  [ id |-> id,
    asset |-> row.asset,
    flow |-> row.flow,
    trust_boundary |-> row.trust_boundary,
    stride_categories |-> row.stride_categories,
    dread_score |-> row.dread_score,
    risk_level |-> row.risk_level,
    mitigation |-> row.mitigation ]

-----------------------------------------------------------------------------
(* The requests: the texts the calls are made with *)

\* the words of a flow text
Vocab ==
  { <<"S","Q","L">>,
    <<"i","n","j","e","c","t","i","o","n">>,
    <<"L","o","g","i","n">>,
    <<"x","s","s">>,
    <<"c","s","r","f">>,
    <<"d","o","s">>,
    <<"h","t","t","p">> }

\* " ".join(ws)
RECURSIVE Join(_)
Join(ws) ==
  IF ws = << >> THEN << >>
  ELSE IF Len(ws) = 1 THEN ws[1]
  ELSE ws[1] \o << " " >> \o Join(Tail(ws))

\* the flow texts: up to MaxWords words
Flows == { Join(ws) : ws \in UNION { [1..n -> Vocab] : n \in 0..MaxWords } }

\* the asset texts: "", "User Database", "Payment API"
Assets ==
  { << >>,
    <<"U","s","e","r"," ","D","a","t","a","b","a","s","e">>,
    <<"P","a","y","m","e","n","t"," ","A","P","I">> }

\* the trust boundaries: absent, "", "Internal Network", "dos"
Boundaries ==
  { None, << >>,
    <<"I","n","t","e","r","n","a","l"," ","N","e","t","w","o","r","k">>,
    <<"d","o","s">> }

\* the user_scores of a suggest_dread_scores call: absent, {}, two dimensions,
\* all five (the scores of the manual-scoring test)
UserScores ==
  { NoScores, {},
    { << "damage", 0 >>, << "discoverability", 10 >> },
    { << "damage", 9 >>, << "reproducibility", 8 >>, << "exploitability", 7 >>,
      << "affected_users", 10 >>, << "discoverability", 6 >> } }

-----------------------------------------------------------------------------
(* The analysis calls on one request.  A call is made while idle and the    *)
(* caller returns to idle after it; the core keeps nothing between calls.   *)

Init ==
  /\ asset \in Assets
  /\ flow \in Flows
  /\ trust_boundary \in Boundaries
  /\ op = "none"
  /\ args = << >>
  /\ ret = << >>
  /\ db = << >>
  /\ library = THREAT_PATTERNS
  /\ last_call = << >>

DetectComponentType ==
  /\ op = "none"
  /\ op' = "detect_component_type"
  /\ ret' = detect_component_type(asset, flow)
  /\ UNCHANGED << library, last_call, asset, flow, trust_boundary, args, db >>

MatchThreatPatterns ==
  /\ op = "none"
  /\ op' = "match_threat_patterns"
  /\ ret' = match_threat_patterns(asset, flow, trust_boundary)
  /\ UNCHANGED << library, last_call, asset, flow, trust_boundary, args, db >>

AnalyzeThreat ==
  /\ op = "none"
  /\ op' = "analyze_threat"
  /\ ret' = analyze_threat(asset, flow, trust_boundary)
  /\ UNCHANGED << library, last_call, asset, flow, trust_boundary, args, db >>

AnalyzeThreatAdvanced ==
  /\ op = "none"
  /\ op' = "analyze_threat_advanced"
  /\ ret' = analyze_threat_advanced(asset, flow, trust_boundary)
  /\ UNCHANGED << library, last_call, asset, flow, trust_boundary, args, db >>

\* DREADScorer.suggest_dread_scores on the request, for each user_scores
SuggestDreadScores ==
  /\ op = "none"
  /\ \E context \in { suggestion_context(asset, flow, trust_boundary) } :
       \E user_scores \in UserScores :
         /\ op' = "suggest_dread_scores"
         /\ args' = user_scores
         /\ ret' = suggestion_result(context, user_scores)
  /\ UNCHANGED << library, last_call, asset, flow, trust_boundary, db >>

\* the caller takes the result; the request stays
Return ==
  /\ op # "none"
  /\ op' = "none"
  /\ args' = << >>
  /\ ret' = << >>
  /\ UNCHANGED << library, last_call, asset, flow, trust_boundary, db >>

Next ==
  \/ DetectComponentType
  \/ MatchThreatPatterns
  \/ AnalyzeThreat
  \/ AnalyzeThreatAdvanced
  \/ SuggestDreadScores
  \/ Return

Spec == Init /\ [][Next]_vars

-----------------------------------------------------------------------------
(* STRIDEEngine.calculate_dread_score on its own *)

\* a DREAD dimension value: validate.Range(min=0, max=10)
Score == 0..10

InitScore ==
  /\ asset = << >>
  /\ flow = << >>
  /\ trust_boundary = None
  /\ op = "none"
  /\ args = << >>
  /\ ret = << >>
  /\ db = << >>
  /\ library = THREAT_PATTERNS
  /\ last_call = << >>

CalculateDreadScore ==
  /\ op = "none"
  /\ \E d \in Score, r \in Score, e \in Score, a \in Score, di \in Score :
       /\ op' = "calculate_dread_score"
       /\ args' = << d, r, e, a, di >>
       /\ ret' = calculate_dread_score(d, r, e, a, di)
  /\ UNCHANGED << library, last_call, asset, flow, trust_boundary, db >>

\* get_suggested_dread_from_patterns called on its own with a list of up to
\* MaxMatches (name, confidence, pattern_data) tuples of four library patterns,
\* the confidences 0.0, 0.3, 0.9 and 1.0 in hundredths
GetSuggestedDreadFromPatterns ==
  /\ op = "none"
  /\ \E n \in 0..MaxMatches :
       \E matched_patterns \in
            [ 1..n -> { [ name |-> THREAT_PATTERNS[k].name, confidence |-> c, data |-> k ] :
                          k \in { 1, 2, 10, 14 }, c \in { 0, 30, 90, 100 } } ] :
         /\ op' = "get_suggested_dread_from_patterns"
         /\ args' = matched_patterns
         /\ ret' = get_suggested_dread_from_patterns(matched_patterns)
  /\ UNCHANGED << library, last_call, asset, flow, trust_boundary, db >>

NextScore ==
  \/ CalculateDreadScore
  \/ GetSuggestedDreadFromPatterns
  \/ Return

SpecScore == InitScore /\ [][NextScore]_vars

-----------------------------------------------------------------------------
(* EnhancedMitigationEngine.get_mitigations on its own *)

\* the STRIDE categories, and a category the engine does not know
StrideNames ==
  { "Spoofing", "Tampering", "Repudiation", "Information Disclosure",
    "Denial of Service", "Elevation of Privilege", "Unknown" }

\* the stride_categories lists: up to MaxCats categories, repeats allowed
StrideLists == UNION { [1..n -> StrideNames] : n \in 0..MaxCats }

\* the risk levels, and a level the engine does not know
RiskLevels == { "High", "Medium", "Low", "Critical" }

\* threat_pattern and component_types: the pattern is absent, one of the three
\* patterns with a dedicated set, a library pattern without one, or a name
\* that is not in the library; the components are absent or a list of tags
Contexts ==
  { [ threat_pattern |-> NoPattern, component_types |-> NoComponents ],
    [ threat_pattern |-> NoPattern, component_types |-> << "database", "api", "authentication" >> ],
    [ threat_pattern |-> "sql_injection", component_types |-> << "database", "api", "authentication" >> ],
    [ threat_pattern |-> "xss", component_types |-> NoComponents ],
    [ threat_pattern |-> "authentication_bypass", component_types |-> << "authentication" >> ],
    [ threat_pattern |-> "idor", component_types |-> << >> ],
    [ threat_pattern |-> "nosuch", component_types |-> << "generic" >> ] }

InitMitigations ==
  /\ asset = << >>
  /\ flow = << >>
  /\ trust_boundary = None
  /\ op = "none"
  /\ args = << >>
  /\ ret = << >>
  /\ db = << >>
  /\ library = THREAT_PATTERNS
  /\ last_call = << >>

GetMitigations ==
  /\ op = "none"
  /\ \E stride_categories \in StrideLists, risk_level \in RiskLevels, context \in Contexts :
       /\ op' = "get_mitigations"
       /\ args' = [ stride_categories |-> stride_categories, risk_level |-> risk_level,
                    threat_pattern |-> context.threat_pattern,
                    component_types |-> context.component_types ]
       /\ ret' = get_mitigations(stride_categories, risk_level,
                                 context.threat_pattern, context.component_types)
  /\ UNCHANGED << library, last_call, asset, flow, trust_boundary, db >>

GetMitigationRecommendations ==
  /\ op = "none"
  /\ \E stride_categories \in StrideLists, risk_level \in RiskLevels :
       /\ op' = "get_mitigation_recommendations"
       /\ args' = [ stride_categories |-> stride_categories, risk_level |-> risk_level ]
       /\ ret' = get_mitigation_recommendations(stride_categories, risk_level)
  /\ UNCHANGED << library, last_call, asset, flow, trust_boundary, db >>

NextMitigations ==
  \/ GetMitigations
  \/ GetMitigationRecommendations
  \/ Return

SpecMitigations == InitMitigations /\ [][NextMitigations]_vars

-----------------------------------------------------------------------------
(* The threats table: the handlers that create threats, and the similarity  *)
(* query over what they stored.  db is the table, in primary-key order.     *)

\* the scores of the manual-scoring request
ManualScores ==
  { << "damage", 9 >>, << "reproducibility", 8 >>, << "exploitability", 7 >>,
    << "affected_users", 10 >>, << "discoverability", 6 >> }

\* the requests posted to /threats/analyze: asset "API" auto-scored with the
\* flows "xss" and "SQL Login" and manually scored with "xss", manually scored
\* with the flow "SQL" (which matches no pattern) under the same scores and
\* with discoverability one lower, a
\* manual request without scores, and a request with an empty asset
PostRequests ==
  { [ asset |-> <<"A","P","I">>, flow |-> f, trust_boundary |-> None,
      auto_score |-> TRUE, scores |-> NoScores ] :
      f \in { <<"x","s","s">>, <<"S","Q","L"," ","L","o","g","i","n">> } }
  \cup
  { [ asset |-> <<"A","P","I">>, flow |-> <<"S","Q","L">>, trust_boundary |-> None,
      auto_score |-> FALSE, scores |-> scores ] :
      scores \in { ManualScores,
                   (ManualScores \ { << "discoverability", 6 >> })
                     \cup { << "discoverability", 5 >> } } }
  \cup
  { [ asset |-> <<"A","P","I">>, flow |-> <<"x","s","s">>, trust_boundary |-> None,
      auto_score |-> FALSE, scores |-> ManualScores ],
    [ asset |-> <<"A","P","I">>, flow |-> <<"x","s","s">>, trust_boundary |-> None,
      auto_score |-> FALSE, scores |-> NoScores ],
    [ asset |-> << >>, flow |-> <<"x","s","s">>, trust_boundary |-> None,
      auto_score |-> TRUE, scores |-> NoScores ] }

\* the scan findings handed to the detector: asset "Payment API" with the
\* flows "xss", "SQL injection" and "SQL Login"
Findings ==
  { [ asset |-> <<"P","a","y","m","e","n","t"," ","A","P","I">>, flow |-> f ] :
      f \in { <<"x","s","s">>,
              <<"S","Q","L"," ","i","n","j","e","c","t","i","o","n">>,
              <<"S","Q","L"," ","L","o","g","i","n">> } }

\* the threat ids asked for: with fewer than MaxThreats rows the largest is
\* not in the table
ThreatIds == 1..MaxThreats

\* the limit of the /threats/<id>/similar endpoint
DefaultLimit == 5

\* the limits find_similar_threats is called with
Limits == { 0 - 1, 0, 1, DefaultLimit }

InitThreats ==
  /\ asset = << >>
  /\ flow = << >>
  /\ trust_boundary = None
  /\ op = "none"
  /\ args = << >>
  /\ ret = << >>
  /\ db = << >>
  /\ library = THREAT_PATTERNS
  /\ last_call = << >>

\* ThreatAnalyze.post
AnalyzePost ==
  /\ op = "none"
  /\ Len(db) < MaxThreats
  /\ \E data \in PostRequests :
       /\ op' = "post"
       /\ args' = data
       /\ IF ~ schema_valid(data)
            THEN /\ ret' = [ code |-> 400, errors |-> "schema" ]
                 /\ db' = db
            ELSE IF ~ data.auto_score /\ ~ all_scores_given(data.scores)
            THEN /\ ret' = [ code |-> 400, errors |-> "dread_scores" ]
                 /\ db' = db
            ELSE \E r \in { analyze_request(data) } :
                   \E threat \in { with_id(r.threat, Len(db) + 1) } :
                     /\ db' = Append(db, threat)
                     /\ ret' = [ code |-> 201, threat |-> threat, analysis |-> r.analysis ]
  /\ UNCHANGED << library, last_call, asset, flow, trust_boundary >>

\* ThreatDetector._create_or_link_threat, called by the _process_* loops for a
\* finding that matches a pattern.  existing_link: the vulnerability is
\* already in the link table, which is not part of the table modelled here.
CreateOrLinkThreat ==
  /\ op = "none"
  /\ Len(db) < MaxThreats
  /\ \E finding \in Findings, existing_link \in BOOLEAN :
       /\ match_threat_patterns(finding.asset, finding.flow, None) # << >>
       /\ op' = "create_or_link_threat"
       /\ args' = finding
       /\ IF existing_link
            THEN /\ ret' = [ action |-> "linked" ]
                 /\ db' = db
            ELSE \E threat \in { with_id(detector_threat(finding.asset, finding.flow), Len(db) + 1) } :
                     /\ db' = Append(db, threat)
                     /\ ret' = [ action |-> "created", threat_id |-> threat.id ]
  /\ UNCHANGED << library, last_call, asset, flow, trust_boundary >>

\* a find_similar_threats that updates a pattern of the library in place: it
\* adds the categories of the target to the STRIDE list of the first pattern
FindSimilarThreatsWriting ==
  /\ op = "none"
  /\ \E threat_id \in ThreatIds :
       \E similarities \in { sorted_similarities(db, threat_id) } :
         \E limit \in Limits :
           /\ op' = "find_similar_threats"
           /\ args' = [ threat_id |-> threat_id, limit |-> limit ]
           /\ ret' = find_similar_threats(db, threat_id, similarities, limit)
  /\ library' = [ library EXCEPT ![1].stride = Append(@, "Spoofing") ]
  /\ UNCHANGED << last_call, asset, flow, trust_boundary, db >>

\* ThreatSimilarityService.find_similar_threats(threat_id, limit)
FindSimilarThreats ==
  /\ op = "none"
  /\ \E threat_id \in ThreatIds :
       \E similarities \in { sorted_similarities(db, threat_id) } :
         \E limit \in Limits :
           /\ op' = "find_similar_threats"
           /\ args' = [ threat_id |-> threat_id, limit |-> limit ]
           /\ ret' = find_similar_threats(db, threat_id, similarities, limit)
  /\ UNCHANGED << library, last_call, asset, flow, trust_boundary, db >>

\* ThreatSimilarityService._calculate_similarity(target, candidate,
\* target_patterns, target_stride) as find_similar_threats calls it, on two
\* rows of the table
CalculateSimilarity ==
  /\ op = "none"
  /\ \E target \in 1..Len(db), candidate \in 1..Len(db) :
       /\ target # candidate
       /\ op' = "calculate_similarity"
       /\ args' = [ target |-> target, candidate |-> candidate ]
       /\ ret' = calculate_similarity(db[target], db[candidate],
                                      pattern_names(db[target]),
                                      db[target].stride_categories)
  /\ UNCHANGED << library, last_call, asset, flow, trust_boundary, db >>

NextThreats ==
  \/ AnalyzePost
  \/ CreateOrLinkThreat
  \/ FindSimilarThreats
  \/ CalculateSimilarity
  \/ Return

SpecThreats == InitThreats /\ [][NextThreats]_vars

-----------------------------------------------------------------------------
(* The core operations called one after another on one request, with the    *)
(* calls that completed on record.  The core keeps no record of its own:    *)
(* last_call is what an observer of the calls remembers.                    *)

\* the requests without a flow whose trust boundary is "dos"
InitCalls ==
  /\ asset \in Assets
  /\ flow = << >>
  /\ trust_boundary = <<"d","o","s">>
  /\ op = "none"
  /\ args = << >>
  /\ ret = << >>
  /\ db = << >>
  /\ library = THREAT_PATTERNS
  /\ last_call = << >>

\* a call returns and the observer notes it, in place of the call noted before;
\* a call that returns by Return is not noted
Complete ==
  /\ op # "none"
  /\ last_call' = << [ op |-> op, texts |-> << asset, flow, trust_boundary >>,
                       args |-> args, ret |-> ret ] >>
  /\ op' = "none"
  /\ args' = << >>
  /\ ret' = << >>
  /\ UNCHANGED << library, asset, flow, trust_boundary, db >>

\* EnhancedMitigationEngine.get_mitigations with at most one category, without
\* a pattern or with the pattern "xss"
GetMitigationsOfOne ==
  /\ op = "none"
  /\ \E stride_categories \in { list \in StrideLists : Len(list) <= 1 },
        risk_level \in RiskLevels,
        context \in { c \in Contexts : c.threat_pattern \in { NoPattern, "xss" } } :
       /\ op' = "get_mitigations"
       /\ args' = [ stride_categories |-> stride_categories, risk_level |-> risk_level,
                    threat_pattern |-> context.threat_pattern,
                    component_types |-> context.component_types ]
       /\ ret' = get_mitigations(stride_categories, risk_level,
                                 context.threat_pattern, context.component_types)
  /\ UNCHANGED << library, last_call, asset, flow, trust_boundary, db >>

NextCalls ==
  \/ DetectComponentType
  \/ MatchThreatPatterns
  \/ AnalyzeThreatAdvanced
  \/ SuggestDreadScores
  \/ GetMitigationsOfOne
  \/ Complete
  \/ Return

SpecCalls == InitCalls /\ [][NextCalls]_vars

-----------------------------------------------------------------------------
(* Properties of the DREAD scorer and calculator *)

\* C1: for every asset, flow and trust boundary, and every user_scores that is
\* absent or has all its values in 0..10, each of the five dimensions of the
\* suggested_scores returned by suggest_dread_scores is an integer in 0..10.
C1_SuggestedScoresInRange ==
  op = "suggest_dread_scores" =>
    \A key \in DreadKeys :
      /\ key \in DOMAIN ret.suggested_scores
      /\ ret.suggested_scores[key] \in 0..10

\* C1 happens: a call without user scores on a request whose context raises a
\* dimension that is already at 9, so that the cap decides the result
C1_Witness ==
  /\ op = "suggest_dread_scores"
  /\ args = NoScores
  /\ ret.matched_patterns # << >>
  /\ InList("database", ret.component_types)
  /\ ret.suggested_scores["damage"] = 10

\* the sum of the five core dimensions of a dread_scores dict
core_sum(dread_scores) == SumOver(dread_scores, DreadKeys)

\* total (a rational) and risk_level are those of the mean of the five core
\* dimensions: total = core / 5, 0 <= total <= 10, High iff the mean > 7,
\* Medium iff 4 < mean <= 7, Low otherwise
core_mean_total(dread_scores, total) ==
  /\ total.n * 5 = core_sum(dread_scores) * total.d
  /\ 0 <= total.n /\ total.n <= 10 * total.d

core_mean_risk(dread_scores, risk_level) ==
  LET core == core_sum(dread_scores)
  IN  /\ (risk_level = "High") <=> (core > 7 * 5)
      /\ (risk_level = "Medium") <=> (4 * 5 < core /\ core <= 7 * 5)
      /\ (risk_level = "Low") <=> (core <= 4 * 5)

\* C2: whenever a threat is auto-scored, by ThreatAnalyze.post with auto_score
\* or by ThreatDetector._create_or_link_threat, the total score is the mean of
\* the five core dimensions of the suggested scores (information_disclosure
\* does not contribute), it lies in 0..10, and the stored risk level is High
\* iff that mean > 7, Medium iff 4 < mean <= 7, Low otherwise.
C2_AutoScoreTotalIsCoreMean ==
  /\ (op = "post" /\ ret.code = 201 /\ args.auto_score) =>
       /\ core_mean_total(ret.threat.dread_score, ret.analysis.dread_score)
       /\ core_mean_risk(ret.threat.dread_score, ret.threat.risk_level)
  /\ (op = "create_or_link_threat" /\ ret.action = "created") =>
       core_mean_risk(db[Len(db)].dread_score, db[Len(db)].risk_level)

\* C3: for five integers in 0..10 calculate_dread_score returns them
\* unchanged, total_score equal to their mean, and risk_level High iff the
\* mean > 7, Medium iff 4 < mean <= 7, Low iff mean <= 4; 9, 8, 7, 10, 6 give
\* 8.0 and High.
C3_CalculateDreadScore ==
  op = "calculate_dread_score" =>
    LET sum == args[1] + args[2] + args[3] + args[4] + args[5]
        mean == [ n |-> sum, d |-> 5 ]
        seven == [ n |-> 7, d |-> 1 ]
        four == [ n |-> 4, d |-> 1 ]
    IN  /\ ret.damage = args[1]
        /\ ret.reproducibility = args[2]
        /\ ret.exploitability = args[3]
        /\ ret.affected_users = args[4]
        /\ ret.discoverability = args[5]
        /\ ret.total_score.n * mean.d = mean.n * ret.total_score.d
        /\ (ret.risk_level = "High") <=> RatLess(seven, mean)
        /\ (ret.risk_level = "Medium") <=> (RatLess(four, mean) /\ ~ RatLess(seven, mean))
        /\ (ret.risk_level = "Low") <=> ~ RatLess(four, mean)
        /\ (args = << 9, 8, 7, 10, 6 >>) =>
             (ret.total_score = [ n |-> 8, d |-> 1 ] /\ ret.risk_level = "High")

\* C3 happens: a mean of exactly 7, which is Medium
C3_Witness ==
  /\ op = "calculate_dread_score"
  /\ args = << 7, 7, 7, 7, 7 >>
  /\ ret.risk_level = "Medium"

-----------------------------------------------------------------------------
(* Properties of the pattern matcher and the component classifier *)

\* C4: the list returned by match_threat_patterns is sorted non-increasing by
\* confidence, and two matches with equal confidence appear in the order their
\* patterns are declared in THREAT_PATTERNS.
C4_MatchesSorted ==
  op = "match_threat_patterns" =>
    \A i \in 1..Len(ret) : \A j \in (i + 1)..Len(ret) :
      /\ ret[i].confidence >= ret[j].confidence
      /\ (ret[i].confidence = ret[j].confidence) => (ret[i].data < ret[j].data)

\* C4 happens: of three matches the sort moved a later pattern ahead of an
\* earlier one and left two of equal confidence in declaration order
C4_Witness ==
  /\ op = "match_threat_patterns"
  /\ \E i \in 1..Len(ret) : \E j \in (i + 1)..Len(ret) : ret[i].data > ret[j].data
  /\ \E i \in 1..Len(ret) : \E j \in (i + 1)..Len(ret) : ret[i].confidence = ret[j].confidence

\* C5: match_threat_patterns returns a pattern iff one of its trigger
\* expressions matches the lowercased text of asset, flow and trust boundary;
\* the confidence of a returned pattern is its base weight, raised by 0.1 and
\* capped at 1.0 exactly when detect_component_type(asset, flow) intersects the
\* pattern's component_types, so it is between the base weight and 1.0; a text
\* matching no trigger gives the empty list.
C5_MatchesAndConfidence ==
  op = "match_threat_patterns" =>
    \A text \in { lower(fmt3(asset, flow, OrEmpty(trust_boundary))) } :
    \A detected \in { ToSet(detect_component_type(asset, flow)) } :
    \* the patterns with a trigger expression that matches the text
    \A triggered \in { { k \in 1..Len(THREAT_PATTERNS) :
                            \E t \in 1..Len(THREAT_PATTERNS[k].patterns) :
                              re_search(THREAT_PATTERNS[k].patterns[t], text) } } :
      /\ \A k \in 1..Len(THREAT_PATTERNS) :
           (k \in triggered) <=> (\E i \in 1..Len(ret) : ret[i].data = k)
      /\ \A i \in 1..Len(ret) :
           LET pattern == THREAT_PATTERNS[ret[i].data]
               base == pattern.confidence
               boosted == detected \cap ToSet(pattern.component_types) # {}
           IN  /\ ret[i].name = pattern.name
               /\ ret[i].confidence = (IF boosted THEN Min(base + 10, 100) ELSE base)
               /\ base <= ret[i].confidence
               /\ ret[i].confidence <= 100
      /\ (triggered = {}) => ret = << >>

\* C5 happens: one returned pattern has the boost, capped at 1.0, and another
\* has its base weight
C5_Witness ==
  /\ op = "match_threat_patterns"
  /\ \E i \in 1..Len(ret) :
       /\ THREAT_PATTERNS[ret[i].data].confidence = 90
       /\ ret[i].confidence = 100
  /\ \E i \in 1..Len(ret) : ret[i].confidence = THREAT_PATTERNS[ret[i].data].confidence

\* C6: detect_component_type returns a non-empty list; it contains each of the
\* nine tags whose keyword group has a keyword in the lowercased text, and it
\* is exactly [generic] iff no group matches: generic never comes with another
\* tag, and an empty asset and flow give generic.
C6_ComponentTypes ==
  op = "detect_component_type" =>
    \A text \in { lower(fmt2(asset, flow)) } :
    LET groups == << << "database", kw_database >>,
                     << "api", kw_api >>,
                     << "authentication", kw_authentication >>,
                     << "authorization", kw_authorization >>,
                     << "frontend", kw_frontend >>,
                     << "backend", kw_backend >>,
                     << "file_system", kw_file_system >>,
                     << "network", kw_network >>,
                     << "logging", kw_logging >> >>
        fires(g) == \E k \in 1..Len(groups[g][2]) : contains(text, groups[g][2][k])
    IN  /\ ret # << >>
        /\ \A g \in 1..Len(groups) : fires(g) => InList(groups[g][1], ret)
        /\ (ret = << "generic" >>) <=> (\A g \in 1..Len(groups) : ~ fires(g))
        /\ InList("generic", ret) => Len(ret) = 1
        /\ (asset = << >> /\ flow = << >>) => ret = << "generic" >>

\* C6 happens: several groups fire on one request
C6_Witness ==
  /\ op = "detect_component_type"
  /\ InList("database", ret)
  /\ InList("authentication", ret)
  /\ InList("logging", ret)

-----------------------------------------------------------------------------
(* Properties of the STRIDE classifier *)

\* C7: for every asset, flow and trust boundary (empty texts and an absent
\* boundary included) the stride_categories of analyze_threat_advanced and of
\* analyze_threat are non-empty; with empty asset and flow and no pattern
\* match they are exactly Tampering and Information Disclosure.
C7_StrideNeverEmpty ==
  LET unmatched == asset = << >> /\ flow = << >>
                   /\ match_threat_patterns(asset, flow, trust_boundary) = << >>
      fallback == { "Tampering", "Information Disclosure" }
  IN  /\ op = "analyze_threat" =>
           (ret # {} /\ (unmatched => ret = fallback))
      /\ op = "analyze_threat_advanced" =>
           (ret.stride_categories # {} /\ (unmatched => ret.stride_categories = fallback))

\* C7 happens: the advanced analysis of an empty request without a trust
\* boundary, where no pattern and no keyword gives a category
C7_Witness ==
  /\ op = "analyze_threat_advanced"
  /\ asset = << >>
  /\ flow = << >>
  /\ trust_boundary = None
  /\ ret.matched_patterns = << >>
  /\ ret.stride_categories = { "Tampering", "Information Disclosure" }

-----------------------------------------------------------------------------
(* Properties of the similarity service *)

\* C8: for every table of persisted threats and every target in it, the
\* result of find_similar_threats has no entry for the target itself.
C8_TargetExcluded ==
  op = "find_similar_threats" =>
    \A i \in 1..Len(ret) : ret[i].threat.id # args.threat_id

\* C8 happens: a target that is in the table, with every other threat returned
C8_Witness ==
  /\ op = "find_similar_threats"
  /\ rows_with_id(db, args.threat_id) # {}
  /\ Len(db) = MaxThreats
  /\ Len(ret) = Len(db) - 1

\* C9: for every integer limit, find_similar_threats returns at most
\* max(0, limit) entries: never more than limit, and the empty list whenever
\* limit <= 0, negative limits included.
C9_AtMostLimit ==
  op = "find_similar_threats" => Len(ret) <= Max(0, args.limit)

-----------------------------------------------------------------------------
(* Properties of the mitigation engine *)

\* C10: for every input of get_mitigations, lists with repeated categories
\* included, no two entries of the returned list have texts that are equal
\* after trimming and lowercasing, and of the collected entries that share
\* such a text the one collected first is retained: the returned texts are
\* pairwise different, every entry returned is the first collected entry of
\* its text, every collected text is returned, and entries the sort does not
\* separate stand in the order in which their texts were first collected.
C10_Deduplicated ==
  op = "get_mitigations" =>
    \A returned \in { ret.mitigations } :
    \A collected \in { collect_mitigations(args.stride_categories, args.risk_level,
                                           args.threat_pattern, args.component_types) } :
    \A collected_key \in { [ c \in 1..Len(collected) |-> text_key(collected[c]) ] } :
    \A returned_key \in { [ i \in 1..Len(returned) |-> text_key(returned[i]) ] } :
    \* where the text of a returned entry was first collected; 0 if nowhere
    \A first \in { [ i \in 1..Len(returned) |->
                      LET at == { c \in 1..Len(collected) : collected_key[c] = returned_key[i] }
                      IN  IF at = {} THEN 0 ELSE CHOOSE c \in at : \A b \in at : c <= b ] } :
      /\ Cardinality({ returned_key[i] : i \in 1..Len(returned) }) = Len(returned)
      /\ \A i \in 1..Len(returned) :
           first[i] # 0 /\ returned[i] = collected[first[i]]
      /\ { collected_key[c] : c \in 1..Len(collected) }
           \subseteq { returned_key[i] : i \in 1..Len(returned) }
      /\ \A i \in 1..Len(returned) : \A j \in (i + 1)..Len(returned) :
           (sort_key(returned[i]) = sort_key(returned[j])) => first[i] < first[j]

\* C10 happens: a category is repeated after another one, and the list
\* returned is shorter than the list collected
C10_Witness ==
  /\ op = "get_mitigations"
  /\ Len(args.stride_categories) = 3
  /\ args.stride_categories[1] = args.stride_categories[3]
  /\ args.stride_categories[1] # args.stride_categories[2]
  /\ args.stride_categories[1] = "Spoofing"
  /\ ret.total_count < Len(collect_mitigations(args.stride_categories, args.risk_level,
                                               args.threat_pattern, args.component_types))

-----------------------------------------------------------------------------
(* Properties of the similarity score *)

\* C12: for any two distinct threats with identical asset, identical
\* STRIDE categories and identical DREAD scores, the similarity score computed
\* by _calculate_similarity, and the one find_similar_threats reports, is 1.0.
C12_IdenticalThreatsScoreOne ==
  /\ op = "calculate_similarity" =>
       \A target \in { db[args.target] } : \A candidate \in { db[args.candidate] } :
         ( /\ target.asset = candidate.asset
           /\ target.stride_categories = candidate.stride_categories
           /\ target.dread_score = candidate.dread_score )
         => ret = Rat(1, 1)
  /\ op = "find_similar_threats" =>
       \A i \in 1..Len(ret) : \A target \in { db[j] : j \in rows_with_id(db, args.threat_id) } :
         ( /\ target.asset = ret[i].threat.asset
           /\ target.stride_categories = ret[i].threat.stride_categories
           /\ target.dread_score = ret[i].threat.dread_score )
         => ret[i].similarity_score = 100

\* C17: for any two threat records whose DREAD values lie in 0..10,
\* _calculate_similarity equals (asset factor + STRIDE Jaccard + pattern-name
\* Jaccard + risk-level proximity + mean DREAD proximity) / 5, where each
\* factor lies in [0,1], a Jaccard factor over two empty sets counts as 0 and
\* the divisor is always 5; hence the score lies in [0,1].
C17_FiveFactorMean ==
  op = "calculate_similarity" =>
    \A target \in { db[args.target] } : \A candidate \in { db[args.candidate] } :
    \A target_patterns \in { pattern_names(target) } :
    \A candidate_patterns \in { pattern_names(candidate) } :
    \A factor \in { << asset_similarity(target, candidate),
                       jaccard(target.stride_categories, candidate.stride_categories),
                       jaccard(target_patterns, candidate_patterns),
                       risk_similarity(target, candidate),
                       dread_similarity(target, candidate) >> } :
    \A sum \in { RatAdd(factor[1], RatAdd(factor[2], RatAdd(factor[3],
                   RatAdd(factor[4], factor[5])))) } :
      (\A key \in DreadKeys : /\ dread_get(target.dread_score, key) \in 0..10
                              /\ dread_get(candidate.dread_score, key) \in 0..10)
      => /\ \A i \in 1..5 : factor[i].d > 0 /\ 0 <= factor[i].n /\ factor[i].n <= factor[i].d
         /\ factor[1] \in { Rat(0, 1), Rat(1, 2), Rat(1, 1) }
         /\ (target.stride_categories \cup candidate.stride_categories # {})
              => factor[2] = Rat(Cardinality(target.stride_categories \cap candidate.stride_categories),
                                 Cardinality(target.stride_categories \cup candidate.stride_categories))
         /\ (target.stride_categories \cup candidate.stride_categories = {})
              => factor[2] = Rat(0, 1)
         /\ (target_patterns \cup candidate_patterns # {})
              => factor[3] = Rat(Cardinality(target_patterns \cap candidate_patterns),
                                 Cardinality(target_patterns \cup candidate_patterns))
         /\ (target_patterns \cup candidate_patterns = {}) => factor[3] = Rat(0, 1)
         \* 5 * ret = sum, as fractions
         /\ 5 * ret.n * sum.d = sum.n * ret.d
         /\ ret.d > 0 /\ 0 <= ret.n /\ ret.n <= ret.d

\* C17 happens: the similarity of two threats that match no pattern and differ
\* in a DREAD value was computed, and was not 0
C17_Witness ==
  /\ op = "calculate_similarity"
  /\ pattern_names(db[args.target]) = {}
  /\ pattern_names(db[args.candidate]) = {}
  /\ db[args.target].dread_score # db[args.candidate].dread_score
  /\ ret.n > 0
  /\ ret.n < ret.d

\* C18: find_similar_threats returns its entries in non-increasing order of the
\* candidates' five-factor mean score, candidates with equal score appear in
\* corpus iteration order, and truncation to limit keeps the highest-scored
\* candidates: no candidate left out scores higher than one returned.
C18_OrderedByScore ==
  op = "find_similar_threats" =>
    \A target \in { db[k] : k \in rows_with_id(db, args.threat_id) } :
    \A target_patterns \in { pattern_names(target) } :
    \* the five-factor mean of every row of the corpus
    \A score \in { [ k \in 1..Len(db) |->
                      calculate_similarity(target, db[k], target_patterns,
                                           target.stride_categories) ] } :
    \* where in the corpus the returned entries stand
    \A at \in { [ i \in 1..Len(ret) |->
                   CHOOSE k \in 1..Len(db) : db[k].id = ret[i].threat.id ] } :
      /\ \A i \in 1..Len(ret) : \A j \in (i + 1)..Len(ret) :
           /\ ~ RatLess(score[at[i]], score[at[j]])
           /\ (score[at[i]] = score[at[j]]) => at[i] < at[j]
      /\ \A k \in 1..Len(db) :
           (db[k].id # args.threat_id /\ k \notin { at[i] : i \in 1..Len(ret) })
           => \A i \in 1..Len(ret) : ~ RatLess(score[at[i]], score[k])

\* C19: in every entry returned by find_similar_threats, similarity_percentage
\* equals that entry's similarity_score multiplied by 100 and rounded to one
\* decimal.  The score is held in hundredths and the percentage in tenths of
\* a percent, so the percentage of a score s is 10 * s.
C19_PercentageOfEntryScore ==
  op = "find_similar_threats" =>
    \A i \in 1..Len(ret) : ret[i].similarity_percentage = 10 * ret[i].similarity_score

\* C19 amended: in every entry returned by find_similar_threats,
\* similarity_percentage equals the candidate's five-factor mean score, as
\* _calculate_similarity returned it, multiplied by 100 and rounded to one
\* decimal, and similarity_score is that mean rounded to two decimals: each is
\* a nearest value to the mean, and the percentage differs from
\* similarity_score * 100 by at most 0.5.
C19_PercentageOfMean ==
  op = "find_similar_threats" =>
    \A target \in { db[k] : k \in rows_with_id(db, args.threat_id) } :
    \A target_patterns \in { pattern_names(target) } :
    \A i \in 1..Len(ret) :
    \A mean \in { calculate_similarity(target, ret[i].threat, target_patterns,
                                       target.stride_categories) } :
    \A percentage \in { ret[i].similarity_percentage } :
    \A score \in { ret[i].similarity_score } :
      /\ 2 * Abs(percentage * mean.d - 1000 * mean.n) <= mean.d
      /\ 2 * Abs(score * mean.d - 100 * mean.n) <= mean.d
      /\ Abs(percentage - 10 * score) <= 5

\* C19 happens: an entry is returned whose percentage is not its rounded
\* score times 100
C19_Witness ==
  /\ op = "find_similar_threats"
  /\ \E i \in 1..Len(ret) : ret[i].similarity_percentage # 10 * ret[i].similarity_score

-----------------------------------------------------------------------------
(* Properties of the DREAD scorer *)

\* C13: every value of the confidence map returned by suggest_dread_scores
\* lies in [0,1], for every key of the map, information_disclosure included,
\* the user overrides being absent or in 0..10.
C13_ConfidenceInUnitInterval ==
  op = "suggest_dread_scores" =>
    ( (args = NoScores \/ \A key \in DictKeys(args) : DictGet(args, key) \in 0..10)
      => \A key \in DOMAIN ret.confidence :
           /\ ret.confidence[key].d > 0
           /\ 0 <= ret.confidence[key].n
           /\ ret.confidence[key].n <= ret.confidence[key].d )

\* C13 happens: without user overrides, the pattern confidence and the
\* component boost add up to more than 1, and the key information_disclosure,
\* which no pattern scores, has confidence 1
C13_Witness ==
  /\ op = "suggest_dread_scores"
  /\ args = NoScores
  /\ "information_disclosure" \in DOMAIN ret.confidence
  /\ ret.confidence["information_disclosure"] = Rat(1, 1)
  /\ \E key \in DOMAIN ret.confidence : ret.confidence[key] # Rat(1, 1)

\* C14: in the result of suggest_dread_scores every dimension present in
\* user_scores is returned with exactly the supplied value and confidence 1.0,
\* and every dimension absent from user_scores has the same score and the
\* same confidence as in the call with the same texts and no user_scores.
C14_UserOverrides ==
  op = "suggest_dread_scores" =>
    \A baseline \in { suggest_dread_scores(asset, flow, trust_boundary, NoScores) } :
    \A given \in { IF args = NoScores THEN {} ELSE DictKeys(args) } :
      /\ DOMAIN ret.suggested_scores = DOMAIN baseline.suggested_scores
      /\ DOMAIN ret.confidence = DOMAIN baseline.confidence
      /\ given \cap DreadKeys \subseteq DOMAIN ret.suggested_scores
      /\ \A key \in DOMAIN ret.suggested_scores :
           IF key \in given
           THEN /\ ret.suggested_scores[key] = DictGet(args, key)
                /\ ret.confidence[key] = Rat(1, 1)
           ELSE /\ ret.suggested_scores[key] = baseline.suggested_scores[key]
                /\ ret.confidence[key] = baseline.confidence[key]

\* C14 happens: damage is supplied as 0 and discoverability as 10, where the
\* call without user_scores returns other values, and reproducibility is not
\* supplied
C14_Witness ==
  /\ op = "suggest_dread_scores"
  /\ args # NoScores
  /\ DictKeys(args) = { "damage", "discoverability" }
  /\ DictGet(args, "damage") = 0
  /\ ret.suggested_scores["damage"] = 0
  /\ suggest_dread_scores(asset, flow, trust_boundary, NoScores).suggested_scores["damage"] # 0
  /\ ret.confidence["reproducibility"] # Rat(1, 1)

-----------------------------------------------------------------------------
(* Properties of the prioritized mitigation list *)

\* C15: when risk_level is High, every mitigation get_mitigations collected,
\* from any source (pattern-specific, STRIDE-category, component-specific,
\* risk-level), that had priority medium is escalated to high: the returned
\* list contains no medium-priority entry and medium_priority_count is 0.
C15_NoMediumWhenHigh ==
  (op = "get_mitigations" /\ args.risk_level = "High") =>
    /\ \A i \in 1..Len(ret.mitigations) : ret.mitigations[i].priority # "medium"
    /\ ret.medium_priority_count = 0

\* C16: the list returned by get_mitigations is ordered by priority rank (high
\* before medium before low) and, within one priority, by effectiveness
\* descending; entries equal in both priority and effectiveness keep the order
\* in which they were collected (pattern set, then STRIDE categories in input
\* order, then components, then risk-level entries).
C16_PriorityThenEffectiveness ==
  op = "get_mitigations" =>
    \A returned \in { ret.mitigations } :
    \A collected \in { collect_mitigations(args.stride_categories, args.risk_level,
                                           args.threat_pattern, args.component_types) } :
    \A rank \in { [ i \in 1..Len(returned) |->
                     CASE returned[i].priority = "high" -> 3
                       [] returned[i].priority = "medium" -> 2
                       [] returned[i].priority = "low" -> 1 ] } :
    \* the first place in the collected list where the returned entry stands
    \A place \in { [ i \in 1..Len(returned) |->
                      CHOOSE c \in 1..Len(collected) :
                        /\ collected[c] = returned[i]
                        /\ \A b \in 1..(c - 1) : collected[b] # returned[i] ] } :
      \A i \in 1..Len(returned) : \A j \in (i + 1)..Len(returned) :
        \/ rank[i] > rank[j]
        \/ rank[i] = rank[j] /\ returned[i].effectiveness > returned[j].effectiveness
        \/ /\ rank[i] = rank[j]
           /\ returned[i].effectiveness = returned[j].effectiveness
           /\ place[i] < place[j]

\* C16 happens: entries of the pattern set, of two categories, of the
\* components and of the risk level are collected, the sort moves a later
\* entry before an earlier one, and two entries tie in priority and
\* effectiveness
C16_Witness ==
  /\ op = "get_mitigations"
  /\ args.threat_pattern = "sql_injection"
  /\ Len(args.stride_categories) >= 2
  /\ args.stride_categories[1] # args.stride_categories[2]
  /\ args.risk_level = "Medium"
  /\ \E i \in 1..Len(ret.mitigations) : \E j \in (i + 1)..Len(ret.mitigations) :
       /\ ret.mitigations[i].priority = ret.mitigations[j].priority
       /\ ret.mitigations[i].effectiveness = ret.mitigations[j].effectiveness
  /\ \E i \in 1..Len(ret.mitigations) : ret.mitigations[i].priority = "medium"
  /\ ret.mitigations # dedup_from(collect_mitigations(args.stride_categories, args.risk_level,
                                                      args.threat_pattern, args.component_types),
                                  1, {})

-----------------------------------------------------------------------------
(* Properties of the pattern library *)

\* C20: after any sequence of calls to the core operations
\* (match_threat_patterns, analyze_threat_advanced, suggest_dread_scores,
\* get_mitigations, find_similar_threats) the pattern library THREAT_PATTERNS
\* is unchanged: no pattern's triggers, STRIDE set, suggested DREAD values,
\* confidence or component tags is ever modified, added or removed.
C20_LibraryUnchanged ==
  /\ Len(library) = Len(THREAT_PATTERNS)
  /\ \A k \in 1..Len(THREAT_PATTERNS) :
       /\ DOMAIN library[k] = DOMAIN THREAT_PATTERNS[k]
       /\ library[k].name = THREAT_PATTERNS[k].name
       /\ library[k].patterns = THREAT_PATTERNS[k].patterns
       /\ library[k].stride = THREAT_PATTERNS[k].stride
       /\ library[k].suggested_dread = THREAT_PATTERNS[k].suggested_dread
       /\ library[k].confidence = THREAT_PATTERNS[k].confidence
       /\ library[k].component_types = THREAT_PATTERNS[k].component_types

\* C20 happens: threats were analysed and stored, which matches patterns,
\* scores and collects mitigations, and a similarity search over the full
\* table returned entries, the library being as it was
C20_Witness ==
  /\ op = "find_similar_threats"
  /\ Len(db) = MaxThreats
  /\ \E i \in 1..Len(db) : pattern_names(db[i]) # {}
  /\ Len(ret) > 0
  /\ library = THREAT_PATTERNS

-----------------------------------------------------------------------------
(* Properties of a sequence of calls *)

-----------------------------------------------------------------------------
(* Properties of the STRIDE classifier *)

\* C22: when no pattern matches, the fallback category set equals the union of
\* the fixed STRIDE mappings of the keyword groups found in the lowercased flow
\* text, and a supplied trust_boundary contributes {Tampering, Information
\* Disclosure} only when that union is still empty.
C22_BoundaryOnlyWhenEmpty ==
  \A found \in { flow_categories(lower(flow), None) } :
  \A fallback \in { IF found # {} THEN found ELSE { "Tampering", "Information Disclosure" } } :
    /\ op = "analyze_threat" => ret = fallback
    /\ (op = "analyze_threat_advanced" /\ ret.matched_patterns = << >>)
         => ret.stride_categories = fallback

\* C22 amended: when no pattern matches, the fallback category set equals the
\* union of the fixed STRIDE mappings of the keyword groups found in the
\* lowercased flow text, where a trust_boundary that is neither absent nor
\* empty counts as the boundary-crossing group being found and so always
\* contributes {Tampering, Information Disclosure}; when nothing is found the
\* set is {Tampering, Information Disclosure}.
C22_BoundaryAlwaysContributes ==
  \A found \in { flow_categories(lower(flow), None)
                   \cup (IF trust_boundary # None /\ trust_boundary # << >>
                           THEN { "Tampering", "Information Disclosure" } ELSE {}) } :
  \A fallback \in { IF found # {} THEN found ELSE { "Tampering", "Information Disclosure" } } :
    /\ op = "analyze_threat" => ret = fallback
    /\ (op = "analyze_threat_advanced" /\ ret.matched_patterns = << >>)
         => ret.stride_categories = fallback

\* C22 happens: no pattern matches the flow "Login" with a trust boundary, the
\* keyword groups found in the flow give neither Tampering nor Information
\* Disclosure, and the fallback returns both
C22_Witness ==
  /\ op = "analyze_threat_advanced"
  /\ ret.matched_patterns = << >>
  /\ flow = <<"L","o","g","i","n">>
  /\ trust_boundary # None /\ trust_boundary # << >>
  /\ "Tampering" \notin flow_categories(lower(flow), None)
  /\ "Spoofing" \in ret.stride_categories
  /\ "Tampering" \in ret.stride_categories

-----------------------------------------------------------------------------
(* Properties of the counts of get_mitigations *)

\* C21: in every result of get_mitigations, total_count equals the length of
\* the returned, deduplicated mitigations list, each of high_priority_count,
\* medium_priority_count and low_priority_count equals the number of returned
\* entries with that priority, and total_count is the sum of the three.
C21_CountsMatchList ==
  op = "get_mitigations" =>
    \A returned \in { ret.mitigations } :
      /\ ret.total_count = Len(returned)
      /\ ret.high_priority_count =
           Cardinality({ i \in 1..Len(returned) : returned[i].priority = "high" })
      /\ ret.medium_priority_count =
           Cardinality({ i \in 1..Len(returned) : returned[i].priority = "medium" })
      /\ ret.low_priority_count =
           Cardinality({ i \in 1..Len(returned) : returned[i].priority = "low" })
      /\ ret.total_count
           = ret.high_priority_count + ret.medium_priority_count + ret.low_priority_count

\* C21 happens: a call with a repeated category, whose duplicates are dropped,
\* returns entries of all three priorities
C21_Witness ==
  /\ op = "get_mitigations"
  /\ Len(args.stride_categories) = 2
  /\ args.stride_categories[1] = args.stride_categories[2]
  /\ ret.high_priority_count > 0
  /\ ret.medium_priority_count > 0
  /\ ret.low_priority_count > 0
  /\ ret.total_count < Len(collect_mitigations(args.stride_categories, args.risk_level,
                                               args.threat_pattern, args.component_types))

\* C23: whenever at least one pattern matches, analyze_threat_advanced returns
\* as stride_categories exactly the union of the STRIDE sets of all matched
\* patterns, the keyword heuristic adding nothing, and primary_pattern and
\* pattern_confidence are the name and the confidence of the first match, which
\* no match exceeds in confidence; when no pattern matches it returns the
\* categories of the keyword fallback, matched_patterns empty, primary_pattern
\* None and pattern_confidence 0.0.
C23_UnionOfMatchedPatterns ==
  op = "analyze_threat_advanced" =>
    \A matches \in { match_threat_patterns(asset, flow, trust_boundary) } :
      IF matches # << >>
      THEN /\ ret.stride_categories
                = UNION { { pattern.stride[k] : k \in 1..Len(pattern.stride) } :
                            pattern \in { THREAT_PATTERNS[matches[i].data] : i \in 1..Len(matches) } }
           /\ ret.matched_patterns = [ i \in 1..Len(matches) |-> matches[i].name ]
           /\ ret.primary_pattern = matches[1].name
           /\ ret.pattern_confidence = matches[1].confidence
           /\ \A i \in 1..Len(matches) : matches[i].confidence <= ret.pattern_confidence
      ELSE /\ ret.stride_categories = analyze_threat(asset, flow, trust_boundary)
           /\ ret.matched_patterns = << >>
           /\ ret.primary_pattern = "None"
           /\ ret.pattern_confidence = 0

\* C23 happens: several patterns of different confidence and different STRIDE
\* sets match, and the keyword heuristic finds a category in the flow that no
\* matched pattern has
C23_Witness ==
  /\ op = "analyze_threat_advanced"
  /\ Len(ret.matched_patterns) >= 2
  /\ \E i \in 1..Len(ret.matched_patterns) :
       \E pattern \in { p \in 1..Len(THREAT_PATTERNS) :
                          THREAT_PATTERNS[p].name = ret.matched_patterns[i] } :
         /\ THREAT_PATTERNS[pattern].confidence < ret.pattern_confidence
         /\ ToSet(THREAT_PATTERNS[pattern].stride) # ret.stride_categories
  /\ ~ (flow_categories(lower(flow), trust_boundary) \subseteq ret.stride_categories)

\* C24: in analyze_threat_advanced, stride_confidence has exactly the returned
\* categories as keys; when patterns matched, the confidence of each category
\* is the arithmetic mean of the confidences of the matches whose STRIDE set
\* contains it, so that it lies between the smallest and the largest match
\* confidence and the 0.5 default is never used; when no pattern matched, the
\* confidence of every category is 0.5.  Match confidences are in hundredths.
C24_CategoryConfidence ==
  op = "analyze_threat_advanced" =>
    \A matches \in { match_threat_patterns(asset, flow, trust_boundary) } :
      /\ DOMAIN ret.stride_confidence = ret.stride_categories
      /\ \A category \in ret.stride_categories :
         \A confidence \in { ret.stride_confidence[category] } :
           IF matches # << >>
           THEN \A relevant \in { { i \in 1..Len(matches) :
                                      \E k \in 1..Len(THREAT_PATTERNS[matches[i].data].stride) :
                                        THREAT_PATTERNS[matches[i].data].stride[k] = category } } :
                  /\ relevant # {}
                  \* confidence = sum / (100 * |relevant|), as fractions
                  /\ confidence.n * 100 * Cardinality(relevant)
                       = confidence.d * SumOver([ i \in relevant |-> matches[i].confidence ], relevant)
                  /\ \E i \in 1..Len(matches) : matches[i].confidence * confidence.d <= 100 * confidence.n
                  /\ \E i \in 1..Len(matches) : matches[i].confidence * confidence.d >= 100 * confidence.n
           ELSE confidence = Rat(1, 2)

\* C24 happens: several patterns match and two categories, found in different
\* matches, have different confidences
C24_Witness ==
  /\ op = "analyze_threat_advanced"
  /\ Len(ret.matched_patterns) >= 2
  /\ \E c1 \in ret.stride_categories : \E c2 \in ret.stride_categories :
       ret.stride_confidence[c1] # ret.stride_confidence[c2]
  /\ \E category \in ret.stride_categories :
       100 * ret.stride_confidence[category].n
         # ret.pattern_confidence * ret.stride_confidence[category].d

-----------------------------------------------------------------------------
(* Properties of the contextual adjustment *)

\* C27: before user overrides, the scores of suggest_dread_scores relate to
\* the baseline b as: damage = min(10, b + [critical keyword in text] +
\* [authentication or authorization component detected] + [database component
\* detected]); affected_users = min(10, b + [critical keyword] +
\* [authentication or authorization component]); exploitability and
\* discoverability = min(10, b + [external-exposure keyword]); reproducibility
\* = b; each bracket is 1 when its condition holds and 0 otherwise, and no
\* adjustment lowers a score.
C27_AdjustedScores ==
  (op = "suggest_dread_scores" /\ (args = NoScores \/ args = {})) =>
    \A b \in { get_suggested_dread_from_patterns(
                 match_threat_patterns(asset, flow, trust_boundary)) } :
    \A text \in { lower(fmt2(asset, flow)) } :
    \A critical \in { IF any_keyword(text, critical_keywords) THEN 1 ELSE 0 } :
    \A external \in { IF any_keyword(text, external_keywords) THEN 1 ELSE 0 } :
    \A auth \in { IF \E k \in 1..Len(ret.component_types) :
                       ret.component_types[k] \in { "authentication", "authorization" }
                  THEN 1 ELSE 0 } :
    \A database \in { IF \E k \in 1..Len(ret.component_types) :
                           ret.component_types[k] = "database"
                      THEN 1 ELSE 0 } :
    \A scores \in { ret.suggested_scores } :
      /\ scores["damage"] = Min(10, b["damage"] + critical + auth + database)
      /\ scores["affected_users"] = Min(10, b["affected_users"] + critical + auth)
      /\ scores["exploitability"] = Min(10, b["exploitability"] + external)
      /\ scores["discoverability"] = Min(10, b["discoverability"] + external)
      /\ scores["reproducibility"] = b["reproducibility"]
      /\ \A key \in DreadKeys : scores[key] >= b[key]

\* C27 happens: a critical keyword and a database component are found, the
\* three increments of damage would pass 10 and damage is 10
C27_Witness ==
  /\ op = "suggest_dread_scores"
  /\ args = NoScores
  /\ any_keyword(lower(fmt2(asset, flow)), critical_keywords)
  /\ any_keyword(lower(fmt2(asset, flow)), external_keywords)
  /\ \E k \in 1..Len(ret.component_types) : ret.component_types[k] = "database"
  /\ get_suggested_dread_from_patterns(
       match_threat_patterns(asset, flow, trust_boundary))["damage"] >= 9
  /\ ret.suggested_scores["damage"] = 10

-----------------------------------------------------------------------------
(* Properties of the pattern-specific mitigations *)

\* C29: for every risk level, each mitigation that get_mitigations takes from
\* a dedicated pattern set (sql_injection, xss, authentication_bypass) has
\* priority high in the returned list; a primary pattern that is in the
\* library but has no dedicated set, or is not in the library at all,
\* contributes no entries: the result is the one of the call without a pattern.
C29_PatternEntriesHigh ==
  op = "get_mitigations" =>
    \A dedicated \in { IF in_THREAT_PATTERNS(args.threat_pattern)
                       THEN pattern_mitigations(args.threat_pattern) ELSE << >> } :
      /\ \A i \in 1..Len(dedicated) :
           \A k \in 1..Len(ret.mitigations) :
             ret.mitigations[k].text = dedicated[i].text =>
               ret.mitigations[k].priority = "high"
      /\ dedicated = << >> =>
           ret = get_mitigations(args.stride_categories, args.risk_level,
                                 NoPattern, args.component_types)

-----------------------------------------------------------------------------
(* Properties of the similarity score as a relation *)

\* C30: the similarity score is symmetric: for any two threat records a and
\* b, the score computed with a as target and b as candidate equals the score
\* computed with b as target and a as candidate.
C30_Symmetric ==
  op = "calculate_similarity" =>
    ret = calculate_similarity(db[args.candidate], db[args.target],
                               pattern_names(db[args.candidate]),
                               db[args.candidate].stride_categories)

\* C30 happens: a score is computed for two threats whose assets differ, one
\* asset being part of the other, and whose patterns differ
C30_Witness ==
  /\ op = "calculate_similarity"
  /\ lower(db[args.target].asset) # lower(db[args.candidate].asset)
  /\ contains(lower(db[args.target].asset), lower(db[args.candidate].asset))
  /\ pattern_names(db[args.target]) # pattern_names(db[args.candidate])
  /\ ret.n > 0

-----------------------------------------------------------------------------
(* Properties of the baseline of get_suggested_dread_from_patterns *)

\* the suggested value of a match for a dimension
suggested_of(match, key) == THREAT_PATTERNS[match.data].suggested_dread[key]

\* C25: get_suggested_dread_from_patterns returns 5 for all five dimensions
\* when no pattern matched; otherwise, the confidences having a positive sum,
\* each dimension is a nearest integer to the confidence-weighted mean of the
\* matches' suggested values, lies between the smallest and the largest
\* suggested value among the matches, and equals the pattern's own value when
\* exactly one pattern matched.
C25_WeightedMean ==
  op = "get_suggested_dread_from_patterns" =>
    /\ args = << >> => ret = [ key \in DreadKeys |-> 5 ]
    /\ \A total \in { SumOver([ i \in 1..Len(args) |-> args[i].confidence ], 1..Len(args)) } :
         (args # << >> /\ total > 0) =>
           \A key \in DreadKeys :
             /\ 2 * Abs(ret[key] * total
                          - SumOver([ i \in 1..Len(args) |->
                                       suggested_of(args[i], key) * args[i].confidence ],
                                    1..Len(args))) <= total
             /\ \E i \in 1..Len(args) : suggested_of(args[i], key) <= ret[key]
             /\ \E i \in 1..Len(args) : suggested_of(args[i], key) >= ret[key]
             /\ Len(args) = 1 => ret[key] = suggested_of(args[1], key)

\* C25 happens: two matches of unequal positive confidence, and a dimension
\* that is neither match's own value
C25_Witness ==
  /\ op = "get_suggested_dread_from_patterns"
  /\ Len(args) = 2
  /\ args[1].confidence > 0
  /\ args[2].confidence > args[1].confidence
  /\ ret["damage"] # suggested_of(args[1], "damage")
  /\ ret["damage"] # suggested_of(args[2], "damage")

\* C26: when the confidences of the matches passed to
\* get_suggested_dread_from_patterns sum to 0, the matches are weighted
\* uniformly: each dimension is a nearest integer to the unweighted mean of the
\* matches' suggested values, not 0.
C26_UniformWhenZero ==
  (/\ op = "get_suggested_dread_from_patterns"
   /\ args # << >>
   /\ \A i \in 1..Len(args) : args[i].confidence = 0) =>
    \A key \in DreadKeys :
      /\ 2 * Abs(ret[key] * Len(args)
                   - SumOver([ i \in 1..Len(args) |-> suggested_of(args[i], key) ],
                             1..Len(args))) <= Len(args)
      /\ ret[key] # 0

-----------------------------------------------------------------------------
(* Properties of the plain-text rendering of the mitigations *)

\* C28: for every list of STRIDE categories (empty or unknown categories
\* included) and every risk_level string, get_mitigation_recommendations
\* returns the texts of get_mitigations(stride_categories, risk_level), in that
\* list's order, joined by newlines: line k of the string is text k, a newline
\* follows every line but the last, and nothing else is in the string; the
\* string is never empty and never the placeholder 'No specific mitigations
\* identified.', because the risk-level catch-all entries are always among the
\* lines (two for High, one for Medium, one for any other level).
C28_TextsJoinedByNewlines ==
  op = "get_mitigation_recommendations" =>
    \A mitigations \in { get_mitigations(args.stride_categories, args.risk_level,
                                         NoPattern, NoComponents).mitigations } :
    \A starts \in { [ k \in 1..Len(mitigations) |->
                       1 + SumOver([ j \in 1..Len(mitigations) |-> Len(mitigations[j].text) + 1 ],
                                   1..(k - 1)) ] } :
    \A catch_all \in { get_risk_level_mitigations(args.risk_level) } :
      /\ Len(mitigations) >= 1
      /\ Len(ret) = SumOver([ j \in 1..Len(mitigations) |-> Len(mitigations[j].text) + 1 ],
                            1..Len(mitigations)) - 1
      /\ \A k \in 1..Len(mitigations) :
           /\ SubSeq(ret, starts[k], starts[k] + Len(mitigations[k].text) - 1)
                = mitigations[k].text
           /\ k < Len(mitigations) => ret[starts[k] + Len(mitigations[k].text)] = "\n"
           /\ \A i \in 1..Len(mitigations[k].text) : mitigations[k].text[i] # "\n"
      /\ ret # << >>
      /\ ret # lines_or_placeholder(<< >>)
      /\ Len(catch_all) = (IF args.risk_level = "High" THEN 2 ELSE 1)
      /\ \A c \in 1..Len(catch_all) :
           \E k \in 1..Len(mitigations) : mitigations[k].text = catch_all[c].text

\* C28 happens: the rendering of an empty list of categories, and of a list
\* with an unknown category under an unknown risk level, has the catch-all line
C28_Witness ==
  /\ op = "get_mitigation_recommendations"
  /\ \/ args.stride_categories = << >> /\ args.risk_level = "High"
     \/ args.stride_categories = << "Unknown", "Spoofing" >> /\ args.risk_level = "Critical"
  /\ \E i \in 1..Len(ret) : ret[i] = "\n"

=============================================================================
